---- MODULE Spec2Model ----
(***************************************************************************)
(* Model of the job pipeline of the GitHub bot: the keyed job queue        *)
(* (src/src/local_queue.rs), the HTTP surface and the worker loop          *)
(* (src/src/bin/gh-webhook-reactor.rs).                                    *)
(*                                                                         *)
(* Five specifications share the variables:                                *)
(*   QueueSpec   the LocalQueue as a library: add / remove /               *)
(*               register_watcher called directly with arbitrary keys;     *)
(*   Spec        the service: webhooks, spawned add tasks, the worker      *)
(*               loop, and dequeue requests of the worker and of other     *)
(*               HTTP clients, all of which wait for their response;       *)
(*   FairSpec    the default deployment (the worker is the only client of  *)
(*               /queue/remove), where a request of the worker may fail on *)
(*               the client side, with weak fairness of every task and     *)
(*               handler step;                                             *)
(*   IngressSpec the IssueComment handler on one webhook drawn from the    *)
(*               bounded payloads (src/src/job.rs for the repository);     *)
(*   PathSpec    Job::repo_dir (src/src/job.rs) and Git::repo_dir          *)
(*               (src/src/api/git.rs) on a drawn root.                     *)
(***************************************************************************)
EXTENDS Integers, Sequences, FiniteSets, TLC

\* ---------------------------------------------------------------- bounds
MaxJobs == 2    \* jobs created by the webhook handler
MaxAdds == 3    \* add calls made when the queue is driven as a library
NumKeys == 2    \* distinct keys used when the queue is driven as a library
MaxFail == 1    \* dequeue requests of the worker that fail
MaxExt  == 1    \* dequeue requests issued by clients other than the worker
MaxTail == 4    \* characters of a comment body after the command prefix
MaxRoot == 3    \* components of a repositories root

MaxReq  == MaxFail + MaxExt + 1   \* dequeue requests / channels alive at once

JobIds  == 1..(IF MaxAdds > MaxJobs THEN MaxAdds ELSE MaxJobs)
ReqIds  == 1..MaxReq

\* A key without the uuid.
JobKey_no_uuid(name, cmd, uuid) == name \o <<"_">> \o cmd \o <<"_", 0>>

\* A key of the service is format!("{}_{}_{}", repo name, command, uuid):
\* the three strings with "_" between them (uuid: one symbol per value).
JobKey(name, cmd, uuid) == name \o <<"_">> \o cmd \o <<"_", uuid>>

\* Keys used when the queue is driven as a library (Id is generic).
LibKeys == { JobKey(<<"k">>, <<>>, i) : i \in 1..NumKeys }

\* Option<T>: None is <<>>, Some(v) is <<v>>.
None    == <<>>
Some(v) == <<v>>

\* The unit value () of Rust: what a function without a return type returns.
Unit == <<>>

VARIABLES
    queue,      \* LocalQueue.queue: IndexMap as a sequence of entries
    watchers,   \* LocalQueue.watchers: Vec<Sender>, a sequence of channel ids
    chanBuf,    \* buffer of each bounded(1) channel, indexed by channel id
    sendTasks,  \* tasks spawned by add: watcher.send(item) not yet run
    addTasks,   \* tasks spawned by the webhook handler: q.lock().add(id, job)
    reqs,       \* POST /queue/remove requests, indexed by request id
    nextJob,    \* next unused job id (stands for the fresh uuid)
    wpc,        \* position of the worker task
    wreq,       \* the request the worker is awaiting (0: none)
    wjob,       \* the job the worker is processing (0: none)
    running,    \* jobs whose processing has started and not finished
    fails,      \* number of requests given up by their client
    extIssued,  \* number of requests issued by other clients
    clock,      \* number of add calls made (history)
    last,       \* the last queue operation: arguments, result, state before
    hook,       \* the last webhook: payload and what the handler made of it
    call,       \* a function applied to drawn arguments, and its result
    localRepo   \* the checkout a script works on: HEAD, index and files

vars == <<queue, watchers, chanBuf, sendTasks, addTasks, reqs,
          nextJob, wpc, wreq, wjob, running, fails, extIssued, clock, last,
          hook, call, localRepo>>

\* ------------------------------------------------------------- IndexMap
\* An entry of the map; t is history: the value of clock when the key was
\* inserted (the map itself stores only key and value).
Entry(k, v, t) == [key |-> k, job |-> v, t |-> t]

\* IndexMap::get_index_of, 1-based here; 0 when the key is absent.
IndexOf(q, k) ==
    IF \E i \in 1..Len(q) : q[i].key = k
    THEN CHOOSE i \in 1..Len(q) : q[i].key = k
    ELSE 0

\* IndexMap::insert_full (re-adding moves the entry to the back).
insert_full_moves(q, k, v, t) ==
    LET i == IndexOf(q, k) IN
    IF i = 0
    THEN [map |-> Append(q, Entry(k, v, t)), index |-> Len(q), old |-> None]
    ELSE [map |-> Append(SubSeq(q, 1, i - 1) \o SubSeq(q, i + 1, Len(q)),
                         Entry(k, v, q[i].t)),
          index |-> Len(q) - 1, old |-> Some(q[i].job)]

\* IndexMap::insert_full (re-adding keeps the old value).
insert_full_keeps(q, k, v, t) ==
    LET i == IndexOf(q, k) IN
    IF i = 0
    THEN [map |-> Append(q, Entry(k, v, t)), index |-> Len(q), old |-> None]
    ELSE [map |-> q, index |-> i - 1, old |-> Some(q[i].job)]

\* IndexMap::insert_full: a new key is appended; an equivalent key keeps its
\* place and gets the new value.  Yields the map, the 0-based index and the
\* old value.
insert_full(q, k, v, t) ==
    LET i == IndexOf(q, k) IN
    IF i = 0
    THEN [map |-> Append(q, Entry(k, v, t)), index |-> Len(q), old |-> None]
    ELSE [map |-> [q EXCEPT ![i] = Entry(k, v, q[i].t)],
          index |-> i - 1, old |-> Some(q[i].job)]

\* IndexMap::shift_remove_index(0): removes the first entry and shifts the
\* following ones down, preserving their order.
shift_remove_index0(q) ==
    IF Len(q) = 0
    THEN [map |-> q, removed |-> None]
    ELSE [map |-> Tail(q), removed |-> Some(Head(q))]

\* ----------------------------------------------------------- LocalQueue
\* LocalQueue::len
len(q) == Len(q)

\* A pos that counts from 1.
pos_from_one(q, id) == IF IndexOf(q, id) = 0 THEN None ELSE Some(IndexOf(q, id))

\* LocalQueue::pos
pos(q, id) == IF IndexOf(q, id) = 0 THEN None ELSE Some(IndexOf(q, id) - 1)

\* An emptiness test that takes every queue for empty.
is_empty_always(q) == TRUE

\* Queue::is_empty
is_empty(q) == len(q) = 0

\* LocalQueue::register_watcher
register_watcher(w, sender) == Append(w, sender)

\* LocalQueue::add that hands the item to the watcher and also stores it.
lq_add_both(q, w, id, item, t) ==
    IF w # <<>>
    THEN [queue |-> insert_full(q, id, item, t).map, watchers |-> Tail(w),
          spawned |-> {[chan |-> Head(w), job |-> item]}, ret |-> Unit]
    ELSE [queue |-> insert_full(q, id, item, t).map, watchers |-> w,
          spawned |-> {}, ret |-> Unit]

\* LocalQueue::add: with a watcher registered the first watcher is removed
\* and a task is spawned that sends the item to it; otherwise the item is
\* inserted.  The function has no return type: the result of insert_full is
\* discarded.
lq_add(q, w, id, item, t) ==
    IF w # <<>>
    THEN [queue |-> q, watchers |-> Tail(w),
          spawned |-> {[chan |-> Head(w), job |-> item]}, ret |-> Unit]
    ELSE [queue |-> insert_full(q, id, item, t).map, watchers |-> w,
          spawned |-> {}, ret |-> Unit]

\* LocalQueue::remove that returns the front entry and leaves it stored.
lq_remove_peek(q) ==
    IF ~ is_empty(q)
    THEN [queue |-> q, ret |-> Some(Head(q).job)]
    ELSE [queue |-> q, ret |-> None]

\* LocalQueue::remove: removes the first entry and returns its value
\* (.map(|(_k, v)| v)), or None when the queue is empty.
lq_remove(q) ==
    IF ~ is_empty(q)
    THEN [queue |-> shift_remove_index0(q).map,
          ret |-> Some(shift_remove_index0(q).removed[1].job)]
    ELSE [queue |-> q, ret |-> None]

\* ------------------------------------------------------------ the state
\* A request that has not been issued.
\* reg and next are history: the handler registered a watcher, and the job
\* passed to the first add after that.
NoReq == [client |-> "none", lp |-> "", pc |-> "unused", status |-> 0,
          body |-> None, conn |-> FALSE, rx |-> FALSE, reg |-> FALSE,
          next |-> None]

\* A request that is over (the response was read or discarded, or the
\* handler was dropped): its slot can be used again.
Closed == NoReq

\* Slot r holds no request and no channel whose sender is still around.
Free(r) ==
    /\ reqs[r].pc = "unused"
    /\ chanBuf[r] = <<>>
    /\ \A i \in 1..Len(watchers) : watchers[i] # r
    /\ \A t \in sendTasks : t.chan # r

\* The slot taken by a new request or channel: the first free one.
NewId == CHOOSE r \in ReqIds : Free(r) /\ \A x \in 1..(r - 1) : ~ Free(x)

NoOp == [op |-> "none", key |-> None, job |-> 0, ret |-> None,
         preQueue |-> <<>>, preWatchers |-> <<>>]

\* No webhook was received.
NoHook == [payload |-> None, outcome |-> "none", err |-> "", tokens |-> <<>>,
           command |-> <<>>, key |-> None]

\* No function was applied.
NoCall == [fn |-> "none", args |-> <<>>, ret |-> None]

\* The files a script works on, and the greatest content of a file: 0 is
\* a file that does not exist, 1 the content checked out, greater ones are
\* written by the script.
RepoPaths  == {"f", "g"}
MaxContent == 2

\* The checkout Job::checkout leaves (reset --hard): the tree of HEAD, the
\* index and the files agree; f is tracked and g does not exist.  staged
\* are the paths added and not written since, committed those of them a
\* commit has taken, changed the result of the last status().changed().
Checkout ==
    LET tree == [p \in RepoPaths |-> IF p = "f" THEN 1 ELSE 0] IN
    [head |-> tree, index |-> tree, wt |-> tree,
     staged |-> {}, committed |-> {}, changed |-> None]

\* LocalQueue::new, no request issued, the worker about to enter its loop.
InitService ==
    /\ queue = <<>>
    /\ watchers = <<>>
    /\ chanBuf = [c \in ReqIds |-> <<>>]
    /\ sendTasks = {}
    /\ addTasks = {}
    /\ reqs = [r \in ReqIds |-> NoReq]
    /\ nextJob = 1
    /\ wpc = "idle"
    /\ wreq = 0
    /\ wjob = 0
    /\ running = {}
    /\ fails = 0
    /\ extIssued = 0
    /\ clock = 0
    /\ last = NoOp
    /\ localRepo = Checkout

Init ==
    /\ InitService
    /\ hook = NoHook
    /\ call = NoCall

queueVars  == <<queue, watchers, sendTasks, clock>>
workerVars == <<wpc, wreq, wjob, running>>
libVars    == <<last>>
callVars   == <<hook, call, localRepo>>

\* A call of add(id, item) with the queue locked.
DoAdd(id, item) ==
    LET r == lq_add(queue, watchers, id, item, clock + 1) IN
    /\ queue' = r.queue
    /\ watchers' = r.watchers
    /\ sendTasks' = sendTasks \cup r.spawned
    /\ clock' = clock + 1
    /\ reqs' = [x \in ReqIds |->
                  IF reqs[x].reg /\ reqs[x].next = None
                  THEN [reqs[x] EXCEPT !.next = Some(item)]
                  ELSE reqs[x]]

\* ------------------------------------------- the queue used as a library
\* q.add(k, j) with a fresh job j.
QAdd(k) ==
    /\ nextJob <= MaxAdds
    /\ DoAdd(k, nextJob)
    /\ last' = [op |-> "add", key |-> k, job |-> nextJob,
                ret |-> lq_add(queue, watchers, k, nextJob, clock + 1).ret,
                preQueue |-> queue, preWatchers |-> watchers]
    /\ nextJob' = nextJob + 1
    /\ UNCHANGED <<chanBuf, addTasks, fails, extIssued>>
    /\ UNCHANGED workerVars

    /\ UNCHANGED callVars
\* q.remove()
QRemove ==
    LET r == lq_remove(queue) IN
    /\ queue' = r.queue
    /\ last' = [op |-> "remove", key |-> None, job |-> 0,
                ret |-> r.ret, preQueue |-> queue, preWatchers |-> watchers]
    /\ UNCHANGED <<watchers, chanBuf, sendTasks, addTasks, reqs,
                   nextJob, fails, extIssued, clock>>
    /\ UNCHANGED workerVars

    /\ UNCHANGED callVars
\* q.register_watcher(send) with the sender of a new bounded(1) channel whose
\* receiver the caller keeps.
QRegisterWatcher ==
    /\ \E r \in ReqIds : Free(r)
    /\ watchers' = register_watcher(watchers, NewId)
    /\ reqs' = [reqs EXCEPT ![NewId] =
                  [NoReq EXCEPT !.client = "lib", !.pc = "waiting",
                                !.rx = TRUE]]
    /\ last' = [op |-> "register", key |-> None, job |-> 0,
                ret |-> None, preQueue |-> queue, preWatchers |-> watchers]
    /\ UNCHANGED <<queue, chanBuf, sendTasks, addTasks, nextJob, fails,
                   extIssued, clock>>
    /\ UNCHANGED workerVars

    /\ UNCHANGED callVars
\* The task spawned by add: watcher.send(item).await.  The channel has room
\* (it is used once); the send fails, and the item is dropped with the
\* task's result, when the receiver is gone.
SendTask(t) ==
    /\ t \in sendTasks
    /\ sendTasks' = sendTasks \ {t}
    /\ chanBuf' = IF reqs[t.chan].rx
                  THEN [chanBuf EXCEPT ![t.chan] = <<t.job>>]
                  ELSE chanBuf
    /\ UNCHANGED <<queue, watchers, addTasks, reqs, nextJob, fails,
                   extIssued, clock, last>>
    /\ UNCHANGED workerVars

    /\ UNCHANGED callVars
QNext ==
    \/ \E k \in LibKeys : QAdd(k)
    \/ QRemove
    \/ QRegisterWatcher
    \/ \E t \in sendTasks : SendTask(t)

QueueSpec == Init /\ [][QNext]_vars

\* ------------------------------------------------- strings and paths
\* A string is the sequence of its characters; "benchbot", ".github" and
\* ".rhai" stand for their characters, none of which is a separator, a
\* quote, a backslash or white space.
SP == " "
NL == "\n"
TAB == "\t"
SQ == "'"
DQ == "\""
BS == "\\"
SLASH == "/"
HASH == "#"
DOLLAR == "$"
BACKQUOTE == "backquote"

\* str::find(c): the 1-based index of the first c in s, 0 when there is none.
find(s, c) ==
    IF \E i \in 1..Len(s) : s[i] = c
    THEN CHOOSE i \in 1..Len(s) : s[i] = c /\ \A m \in 1..(i - 1) : s[m] # c
    ELSE 0

\* str::starts_with
starts_with(s, p) == Len(p) <= Len(s) /\ SubSeq(s, 1, Len(p)) = p

\* str::split_once(c): the text before and after the first c, if there is one.
split_once(s, c) ==
    IF find(s, c) = 0 THEN None
    ELSE Some(<<SubSeq(s, 1, find(s, c) - 1),
                SubSeq(s, find(s, c) + 1, Len(s))>>)

\* str::split(c): the pieces between the occurrences of c, empty pieces
\* included.
RECURSIVE str_split(_, _)
str_split(s, c) ==
    IF find(s, c) = 0 THEN <<s>>
    ELSE <<SubSeq(s, 1, find(s, c) - 1)>>
         \o str_split(SubSeq(s, find(s, c) + 1, Len(s)), c)

\* str::strip_prefix('/')
strip_prefix(s, c) == IF s # <<>> /\ s[1] = c THEN Some(Tail(s)) ELSE None

\* [String]::join(sep)
RECURSIVE join(_, _)
join(ws, sep) ==
    IF ws = <<>> THEN <<>>
    ELSE IF Len(ws) = 1 THEN ws[1]
    ELSE ws[1] \o <<sep>> \o join(Tail(ws), sep)

\* Path::is_absolute (unix)
is_absolute(p) == p # <<>> /\ p[1] = SLASH

\* Path::join / PathBuf::push: an absolute path replaces the base; otherwise
\* a separator is added unless the base is empty or ends with one.
path_join(base, p) ==
    IF is_absolute(p) THEN p
    ELSE IF base # <<>> /\ base[Len(base)] # SLASH THEN base \o <<SLASH>> \o p
    ELSE base \o p

\* shell_words::split: the state machine of the crate, run from position i
\* in state st with the current word w and the finished words ws.
RECURSIVE shell_run(_, _, _, _, _)
shell_run(s, i, st, w, ws) ==
    LET eof == i > Len(s)
        c   == IF eof THEN "" ELSE s[i]
        white == c \in {SP, TAB, NL}
        go(st2, w2, ws2) == shell_run(s, i + 1, st2, w2, ws2)
    IN
    CASE st = "Delimiter" ->
           IF eof THEN [ok |-> TRUE, words |-> ws]
           ELSE IF c = SQ THEN go("SingleQuoted", w, ws)
           ELSE IF c = DQ THEN go("DoubleQuoted", w, ws)
           ELSE IF c = BS THEN go("Backslash", w, ws)
           ELSE IF white THEN go("Delimiter", w, ws)
           ELSE IF c = HASH THEN go("Comment", w, ws)
           ELSE go("Unquoted", Append(w, c), ws)
      [] st = "Backslash" ->
           IF eof THEN [ok |-> TRUE, words |-> Append(ws, Append(w, BS))]
           ELSE IF c = NL THEN go("Delimiter", w, ws)
           ELSE go("Unquoted", Append(w, c), ws)
      [] st = "Unquoted" ->
           IF eof THEN [ok |-> TRUE, words |-> Append(ws, w)]
           ELSE IF c = SQ THEN go("SingleQuoted", w, ws)
           ELSE IF c = DQ THEN go("DoubleQuoted", w, ws)
           ELSE IF c = BS THEN go("UnquotedBackslash", w, ws)
           ELSE IF white THEN go("Delimiter", <<>>, Append(ws, w))
           ELSE go("Unquoted", Append(w, c), ws)
      [] st = "UnquotedBackslash" ->
           IF eof THEN [ok |-> TRUE, words |-> Append(ws, Append(w, BS))]
           ELSE IF c = NL THEN go("Unquoted", w, ws)
           ELSE go("Unquoted", Append(w, c), ws)
      [] st = "SingleQuoted" ->
           IF eof THEN [ok |-> FALSE, words |-> <<>>]
           ELSE IF c = SQ THEN go("Unquoted", w, ws)
           ELSE go("SingleQuoted", Append(w, c), ws)
      [] st = "DoubleQuoted" ->
           IF eof THEN [ok |-> FALSE, words |-> <<>>]
           ELSE IF c = DQ THEN go("Unquoted", w, ws)
           ELSE IF c = BS THEN go("DoubleQuotedBackslash", w, ws)
           ELSE go("DoubleQuoted", Append(w, c), ws)
      [] st = "DoubleQuotedBackslash" ->
           IF eof THEN [ok |-> FALSE, words |-> <<>>]
           ELSE IF c = NL THEN go("DoubleQuoted", w, ws)
           ELSE IF c \in {DOLLAR, BACKQUOTE, DQ, BS}
                THEN go("DoubleQuoted", Append(w, c), ws)
           ELSE go("DoubleQuoted", Append(Append(w, BS), c), ws)
      [] OTHER ->   \* Comment
           IF eof THEN [ok |-> TRUE, words |-> ws]
           ELSE IF c = NL THEN go("Delimiter", w, ws)
           ELSE go("Comment", w, ws)

\* shell_words::split(s): Ok(words) or Err(ParseError).
shell_words_split(s) == shell_run(s, 1, "Delimiter", <<>>, <<>>)

\* ------------------------------------------------------------ the service
RepoNames == {<<"r">>}

\* Config.command_prefix, by default "/benchbot".
command_prefix == <<SLASH, "benchbot">>

\* prepare_command that takes a missing subcommand as the empty string.
prepare_command_lenient(command) ==
    IF Len(command) < 1 THEN [ok |-> FALSE, err |-> "NoCmd", cmd |-> <<>>]
    ELSE LET dir  == IF strip_prefix(command[1], SLASH) # None
                     THEN strip_prefix(command[1], SLASH)[1]
                     ELSE command[1]
             file == (IF Len(command) < 2 THEN <<>> ELSE command[2])
                     \o <<".rhai">>
             args == SubSeq(command, 3, Len(command))
             script_path == path_join(path_join(<<".github">>, dir), file)
         IN [ok |-> TRUE, err |-> "", cmd |-> <<script_path>> \o args]

\* prepare_command: the first token without one leading '/' is the
\* directory, the second token with ".rhai" the file, both joined as paths
\* to ".github"; the result is the script path followed by the remaining
\* tokens.  Err(NoCmd) without a first or a second token.
prepare_command(command) ==
    IF Len(command) < 1 THEN [ok |-> FALSE, err |-> "NoCmd", cmd |-> <<>>]
    ELSE IF Len(command) < 2 THEN [ok |-> FALSE, err |-> "NoCmd", cmd |-> <<>>]
    ELSE LET dir  == IF strip_prefix(command[1], SLASH) # None
                     THEN strip_prefix(command[1], SLASH)[1]
                     ELSE command[1]
             file == command[2] \o <<".rhai">>
             args == SubSeq(command, 3, Len(command))
             script_path == path_join(path_join(<<".github">>, dir), file)
         IN [ok |-> TRUE, err |-> "", cmd |-> <<script_path>> \o args]

\* The tokens of the command of a comment body: with a newline in the body
\* the text before the first one is split as shell words, and a failure of
\* that split panics (expect); without a newline the body is split at every
\* single space.
command_tokens(body) ==
    IF split_once(body, NL) # None
    THEN LET r == shell_words_split(split_once(body, NL)[1][1]) IN
         IF r.ok THEN [panic |-> FALSE, tokens |-> r.words]
         ELSE [panic |-> TRUE, tokens |-> <<>>]
    ELSE [panic |-> FALSE, tokens |-> str_split(body, SP)]

\* Repository::try_from that does not look at clone_url.
Repository_try_from_owner_only(repo) ==
    IF ~ repo.owner
    THEN [ok |-> FALSE, err |-> "MissingRepositoryField(owner)"]
    ELSE [ok |-> TRUE, err |-> ""]

\* TryFrom<octocrab::models::Repository> for Repository: owner, then
\* clone_url, must be present.
Repository_try_from(repo) ==
    IF ~ repo.owner
    THEN [ok |-> FALSE, err |-> "MissingRepositoryField(owner)"]
    ELSE IF ~ repo.clone_url
    THEN [ok |-> FALSE, err |-> "MissingRepositoryField(clone_url)"]
    ELSE [ok |-> TRUE, err |-> ""]

\* A webhook payload of an IssueComment event: whether it converts to an
\* IssueCommentPayload, the comment body (Option), the repository name and
\* whether the repository has an owner and a clone_url.
Payload(parses, body, name, owner, clone_url) ==
    [parses |-> parses, body |-> body, name |-> name, owner |-> owner,
     clone_url |-> clone_url]

\* What the IssueComment handler makes of payload p, uuid being the fresh
\* Uuid::new_v4(): the outcome (ignored: not a command; dropped: logged and
\* returned; panicked; accepted: the add task is spawned), the logged
\* error, the tokens, and the command and key of the job.
handle(p, uuid) ==
    LET h0 == [NoHook EXCEPT !.payload = Some(p)] IN
    IF ~ p.parses
    THEN [h0 EXCEPT !.outcome = "dropped", !.err = "payload"]
    ELSE IF p.body = None \/ ~ starts_with(p.body[1], command_prefix)
    THEN [h0 EXCEPT !.outcome = "ignored"]
    ELSE LET ct  == command_tokens(p.body[1])
             pc  == prepare_command(ct.tokens)
             rep == Repository_try_from(p)
         IN
         IF ct.panic
         THEN [h0 EXCEPT !.outcome = "panicked",
                         !.err = "Failed to split command as shell words"]
         ELSE IF ~ pc.ok
         THEN [h0 EXCEPT !.outcome = "dropped", !.err = pc.err,
                         !.tokens = ct.tokens]
         ELSE IF ~ rep.ok
         THEN [h0 EXCEPT !.outcome = "dropped", !.err = rep.err,
                         !.tokens = ct.tokens]
         ELSE [h0 EXCEPT !.outcome = "accepted", !.tokens = ct.tokens,
                         !.command = pc.cmd,
                         !.key = Some(JobKey(p.name, join(pc.cmd, SP), uuid))]

\* The IssueComment handler on payload p: when the comment is accepted a
\* task is spawned that locks the queue and adds the job under its key.
IssueCommentHandler(p) ==
    LET h == handle(p, nextJob) IN
    /\ h.outcome = "accepted" => nextJob <= MaxJobs
    /\ hook' = h
    /\ IF h.outcome = "accepted"
       THEN /\ addTasks' = addTasks \cup
                  {[key |-> h.key[1], job |-> nextJob, command |-> h.command]}
            /\ nextJob' = nextJob + 1
       ELSE UNCHANGED <<addTasks, nextJob>>
    /\ UNCHANGED libVars
    /\ UNCHANGED <<chanBuf, reqs, fails, extIssued, call, localRepo>>
    /\ UNCHANGED queueVars
    /\ UNCHANGED workerVars

\* The comments sent to the running service: a command of two tokens and
\* nothing else in the body, from a complete repository.
ServicePayloads ==
    { Payload(TRUE, Some(command_prefix \o <<SP, "bench">>), name, TRUE, TRUE) :
        name \in RepoNames }

\* The query strings of POST /queue/remove.
Queries == {"long_poll=true", "long_poll=false", "", "long_poll=x"}

\* req.query::<Options>() with #[serde(default)] on Options { long_poll }:
\* an absent parameter is bool::default(), a value that is not a bool is an
\* error.
query(qs) ==
    CASE qs = "long_poll=true"  -> [ok |-> TRUE, long_poll |-> TRUE]
      [] qs = "long_poll=false" -> [ok |-> TRUE, long_poll |-> FALSE]
      [] qs = ""                -> [ok |-> TRUE, long_poll |-> FALSE]
      [] OTHER                  -> [ok |-> FALSE, long_poll |-> FALSE]

\* The spawned task: q.lock().await.add(id, job).
AddTask(t) ==
    /\ t \in addTasks
    /\ addTasks' = addTasks \ {t}
    /\ DoAdd(t.key, t.job)
    /\ UNCHANGED libVars
    /\ UNCHANGED <<chanBuf, nextJob, fails, extIssued>>
    /\ UNCHANGED workerVars

    /\ UNCHANGED callVars
\* remove_from_queue registering a watcher whatever long_poll says.
WantsWatcherAlways(opt) == TRUE

\* remove_from_queue: `if long_poll`.
WantsWatcher(opt) == opt.long_poll

\* remove_from_queue, the block that holds the lock: remove(); with a job
\* respond 200 with it; without one parse the query and register the sender
\* of a new channel (long_poll), or respond 404, or fail on the query.
RemoveFromQueue(r) ==
    /\ reqs[r].pc = "sent"
    /\ LET res == lq_remove(queue)
           opt == query(reqs[r].lp)
       IN
       /\ queue' = res.queue
       /\ IF res.ret # None
          THEN /\ reqs' = [reqs EXCEPT ![r].pc = "responded",
                                       ![r].status = 200,
                                       ![r].body = res.ret]
               /\ UNCHANGED watchers
          ELSE IF ~ opt.ok
          THEN /\ reqs' = [reqs EXCEPT ![r].pc = "responded",
                                       ![r].status = 400]
               /\ UNCHANGED watchers
          ELSE IF WantsWatcher(opt)
          THEN /\ watchers' = register_watcher(watchers, r)
               /\ reqs' = [reqs EXCEPT ![r].pc = "waiting", ![r].rx = TRUE,
                                       ![r].reg = TRUE]
          ELSE /\ reqs' = [reqs EXCEPT ![r].pc = "responded",
                                       ![r].status = 404]
               /\ UNCHANGED watchers
    /\ UNCHANGED libVars
    /\ UNCHANGED <<chanBuf, sendTasks, addTasks, nextJob, fails,
                   extIssued, clock>>
    /\ UNCHANGED workerVars

    /\ UNCHANGED callVars
\* remove_from_queue, after the lock is released: recv.recv().await, then
\* the 200 response with the received job.
RecvJob(r) ==
    /\ reqs[r].pc = "waiting"
    /\ reqs[r].client # "lib"
    /\ reqs[r].rx
    /\ chanBuf[r] # <<>>
    /\ reqs' = [reqs EXCEPT ![r].pc = "responded", ![r].status = 200,
                            ![r].body = Some(chanBuf[r][1])]
    /\ chanBuf' = [chanBuf EXCEPT ![r] = <<>>]
    /\ UNCHANGED libVars
    /\ UNCHANGED <<addTasks, nextJob, fails, extIssued>>
    /\ UNCHANGED queueVars
    /\ UNCHANGED workerVars

    /\ UNCHANGED callVars
\* A response written to a connection whose client is gone.
ResponseDiscarded(r) ==
    /\ reqs[r].pc = "responded"
    /\ ~ reqs[r].conn
    /\ reqs' = [reqs EXCEPT ![r] = Closed]
    /\ UNCHANGED libVars
    /\ UNCHANGED <<chanBuf, addTasks, nextJob, fails, extIssued>>
    /\ UNCHANGED queueVars
    /\ UNCHANGED workerVars

    /\ UNCHANGED callVars
\* get_job returns Err: the request does not reach the server (connection
\* error), or the worker's client stops waiting for the response of the
\* long poll (timeout, broken connection).  In the second case, whether the
\* handler goes on waiting or its future is dropped with the receiver is
\* not decided by this code: both outcomes are possible, and the sender of
\* the registered watcher stays in the queue either way.  The worker logs
\* the error and starts the next iteration of its loop.
GetJobFails(dropped) ==
    /\ wpc = "await"
    /\ reqs[wreq].pc \in {"sent", "waiting"}
    /\ fails < MaxFail
    /\ fails' = fails + 1
    /\ reqs' = [reqs EXCEPT ![wreq] =
                  IF @.pc = "sent" \/ dropped THEN Closed
                  ELSE [@ EXCEPT !.conn = FALSE]]
    /\ chanBuf' = IF dropped THEN [chanBuf EXCEPT ![wreq] = <<>>] ELSE chanBuf
    /\ wpc' = "idle"
    /\ wreq' = 0
    /\ UNCHANGED libVars
    /\ UNCHANGED <<addTasks, nextJob, extIssued, wjob, running>>
    /\ UNCHANGED queueVars

    /\ UNCHANGED callVars
\* Another HTTP client posts to /queue/remove.
ExtRequest(qs) ==
    /\ extIssued < MaxExt
    /\ \E r \in ReqIds : Free(r)
    /\ reqs' = [reqs EXCEPT ![NewId] =
                  [NoReq EXCEPT !.client = "ext", !.lp = qs, !.pc = "sent",
                                !.conn = TRUE]]
    /\ extIssued' = extIssued + 1
    /\ UNCHANGED libVars
    /\ UNCHANGED <<chanBuf, addTasks, nextJob, fails>>
    /\ UNCHANGED queueVars
    /\ UNCHANGED workerVars

    /\ UNCHANGED callVars
\* That client reads the response.
ExtReceive(r) ==
    /\ reqs[r].client = "ext"
    /\ reqs[r].pc = "responded"
    /\ reqs[r].conn
    /\ reqs' = [reqs EXCEPT ![r] = Closed]
    /\ UNCHANGED libVars
    /\ UNCHANGED <<chanBuf, addTasks, nextJob, fails, extIssued>>
    /\ UNCHANGED queueVars
    /\ UNCHANGED workerVars

    /\ UNCHANGED callVars
\* -------------------------------------------------------- the worker task
\* A worker that asks for the next job while a job is being processed.
LoopHeadOrBusy == wpc \notin {"await", "dead"}

\* The worker is at the head of its loop: every step of the previous
\* iteration was awaited.
LoopHead == wpc = "idle"

\* get_job: surf::post("{url}/queue/remove?long_poll=true").
GetJob ==
    /\ LoopHead
    /\ \E r \in ReqIds : Free(r)
    /\ reqs' = [reqs EXCEPT ![NewId] =
                  [NoReq EXCEPT !.client = "worker", !.lp = "long_poll=true",
                                !.pc = "sent", !.conn = TRUE]]
    /\ wpc' = "await"
    /\ wreq' = NewId
    /\ UNCHANGED libVars
    /\ UNCHANGED <<chanBuf, addTasks, nextJob, fails, extIssued, wjob, running>>
    /\ UNCHANGED queueVars

    /\ UNCHANGED callVars
\* get_job: res.body_json::<Job>() of the response; the status is not
\* looked at.  Ok(job) starts the processing of the job, Err is logged.
ReceiveJob ==
    /\ wpc = "await"
    /\ reqs[wreq].pc = "responded"
    /\ reqs[wreq].conn
    /\ reqs' = [reqs EXCEPT ![wreq] = Closed]
    /\ wreq' = 0
    /\ IF reqs[wreq].body # None
       THEN /\ wpc' = "mint"
            /\ wjob' = reqs[wreq].body[1]
            /\ running' = running \cup {reqs[wreq].body[1]}
       ELSE /\ wpc' = "idle"
            /\ UNCHANGED <<wjob, running>>
    /\ UNCHANGED libVars
    /\ UNCHANGED <<chanBuf, addTasks, nextJob, fails, extIssued>>
    /\ UNCHANGED queueVars

    /\ UNCHANGED callVars
\* rt_handle.block_on(...): list the installations and mint an installation
\* token.  On Err the task returns, and the unwraps panic: either way the
\* worker task ends.
MintToken(ok) ==
    /\ wpc = "mint"
    /\ IF ok
       THEN /\ wpc' = "run"
            /\ UNCHANGED <<wjob, running>>
       ELSE /\ wpc' = "dead"
            /\ wjob' = 0
            /\ running' = running \ {wjob}
    /\ UNCHANGED libVars
    /\ UNCHANGED <<chanBuf, addTasks, reqs, nextJob, fails,
                   extIssued, wreq>>
    /\ UNCHANGED queueVars

    /\ UNCHANGED callVars
\* run(&repos_root, job, gh_client).await: checkout, prepare_script and
\* run of the script; Err leads to the error report, Ok ends the iteration.
RunJob(ok) ==
    /\ wpc = "run"
    /\ IF ok
       THEN /\ wpc' = "idle"
            /\ wjob' = 0
            /\ running' = running \ {wjob}
       ELSE /\ wpc' = "report"
            /\ UNCHANGED <<wjob, running>>
    /\ UNCHANGED libVars
    /\ UNCHANGED <<chanBuf, addTasks, reqs, nextJob, fails,
                   extIssued, wreq>>
    /\ UNCHANGED queueVars

    /\ UNCHANGED callVars
\* The number of the issue the job is about: issue.number of the payload,
\* which counts the issues of a repository from 1.
issue_number(job) == job

\* TryInto<u64> of the issue number.
try_into(n) == IF n >= 0 THEN Some(n) ELSE None

\* The error branch: the error is logged and, when the issue number
\* converts, create_comment(issue_nr, "Error running job: ...") is called on
\* the issue of the job; when it does not, the iteration ends.
ReportError ==
    /\ wpc = "report"
    /\ IF try_into(issue_number(wjob)) # None
       THEN /\ wpc' = "comment"
            /\ UNCHANGED <<wjob, running>>
       ELSE /\ wpc' = "idle"
            /\ wjob' = 0
            /\ running' = running \ {wjob}
    /\ UNCHANGED libVars
    /\ UNCHANGED <<chanBuf, addTasks, reqs, nextJob, fails,
                   extIssued, wreq>>
    /\ UNCHANGED queueVars
    /\ UNCHANGED callVars

\* The call of create_comment returns: Ok, or Err, which is logged.  The
\* iteration ends either way.
CreateComment(posted) ==
    /\ wpc = "comment"
    /\ wpc' = "idle"
    /\ wjob' = 0
    /\ running' = running \ {wjob}
    /\ UNCHANGED libVars
    /\ UNCHANGED <<chanBuf, addTasks, reqs, nextJob, fails,
                   extIssued, wreq>>
    /\ UNCHANGED queueVars
    /\ UNCHANGED callVars

\* ------------------------------------------------------- specifications
\* The steps of the server and of the worker.
SystemStep ==
    \/ \E t \in addTasks : AddTask(t)
    \/ \E t \in sendTasks : SendTask(t)
    \/ \E r \in ReqIds : RemoveFromQueue(r)
    \/ \E r \in ReqIds : RecvJob(r)
    \/ GetJob
    \/ ReceiveJob
    \/ \E ok \in BOOLEAN : MintToken(ok)
    \/ \E ok \in BOOLEAN : RunJob(ok)
    \/ ReportError
    \/ \E posted \in BOOLEAN : CreateComment(posted)

\* The steps of the environment in the default deployment.
DefaultEnvStep ==
    \/ \E p \in ServicePayloads : IssueCommentHandler(p)
    \/ \E dropped \in BOOLEAN : GetJobFails(dropped)

Next ==
    \/ SystemStep
    \/ \E p \in ServicePayloads : IssueCommentHandler(p)
    \/ \E qs \in Queries : ExtRequest(qs)
    \/ \E r \in ReqIds : ExtReceive(r)

Spec == Init /\ [][Next]_vars

DefaultNext ==
    \/ SystemStep
    \/ \E r \in ReqIds : ResponseDiscarded(r)
    \/ DefaultEnvStep

\* Every spawned task, every handler and the worker are scheduled fairly by
\* the executor; calls to the hosting service return.  Webhooks and client
\* failures are up to the environment.
FairSpec ==
    /\ Init
    /\ [][DefaultNext]_vars
    /\ WF_vars(\E t \in addTasks : AddTask(t))
    /\ WF_vars(\E t \in sendTasks : SendTask(t))
    /\ WF_vars(\E r \in ReqIds : RemoveFromQueue(r))
    /\ WF_vars(\E r \in ReqIds : RecvJob(r))
    /\ WF_vars(\E r \in ReqIds : ResponseDiscarded(r))
    /\ WF_vars(GetJob)
    /\ WF_vars(ReceiveJob)
    /\ WF_vars(\E ok \in BOOLEAN : MintToken(ok))
    /\ WF_vars(\E ok \in BOOLEAN : RunJob(ok))
    /\ WF_vars(ReportError)
    /\ WF_vars(\E posted \in BOOLEAN : CreateComment(posted))

\* ------------------------------------------------- the bankbot binary
\* src/main.rs is a second service around the same queue, without the
\* client of the hosting service: its webhook handler adds the job itself
\* and its worker runs the job as soon as it is received.

\* The handler on a comment that starts with the prefix: the command is
\* the first line of the body, the key ends with the time in nanoseconds
\* (the times of two webhooks differ), and queue.lock() ... add(id, job).
BankbotIssueComment ==
    /\ nextJob <= MaxJobs
    /\ DoAdd(JobKey(<<"r">>, command_prefix, nextJob), nextJob)
    /\ nextJob' = nextJob + 1
    /\ UNCHANGED libVars
    /\ UNCHANGED <<chanBuf, addTasks, fails, extIssued>>
    /\ UNCHANGED workerVars
    /\ UNCHANGED callVars

\* get_job returned: Ok(job) is logged and run, Err is logged.
BankbotReceiveJob ==
    /\ wpc = "await"
    /\ reqs[wreq].pc = "responded"
    /\ reqs[wreq].conn
    /\ reqs' = [reqs EXCEPT ![wreq] = Closed]
    /\ wreq' = 0
    /\ IF reqs[wreq].body # None
       THEN /\ wpc' = "run"
            /\ wjob' = reqs[wreq].body[1]
            /\ running' = running \cup {reqs[wreq].body[1]}
       ELSE /\ wpc' = "idle"
            /\ UNCHANGED <<wjob, running>>
    /\ UNCHANGED libVars
    /\ UNCHANGED <<chanBuf, addTasks, nextJob, fails, extIssued>>
    /\ UNCHANGED queueVars
    /\ UNCHANGED callVars

\* The error branch of the worker: log::warn!("Error running job: {}", e),
\* and nothing else.  The iteration ends.
BankbotLogError ==
    /\ wpc = "report"
    /\ wpc' = "idle"
    /\ wjob' = 0
    /\ running' = running \ {wjob}
    /\ UNCHANGED libVars
    /\ UNCHANGED <<chanBuf, addTasks, reqs, nextJob, fails, extIssued, wreq>>
    /\ UNCHANGED queueVars
    /\ UNCHANGED callVars

BankbotNext ==
    \/ BankbotIssueComment
    \/ \E t \in sendTasks : SendTask(t)
    \/ \E r \in ReqIds : RemoveFromQueue(r)
    \/ \E r \in ReqIds : RecvJob(r)
    \/ GetJob
    \/ BankbotReceiveJob
    \/ \E ok \in BOOLEAN : RunJob(ok)
    \/ BankbotLogError
    \/ \E qs \in Queries : ExtRequest(qs)
    \/ \E r \in ReqIds : ExtReceive(r)

BankbotSpec == Init /\ [][BankbotNext]_vars

\* ---------------------------------------------- the ingress on its own
\* The characters comment bodies are made of.
Chars == {SP, "x", SLASH, DQ, SQ, BS, NL}

Tails == UNION { [1..n -> Chars] : n \in 0..MaxTail }

\* The comment bodies: none, the command prefix followed by any text, and
\* texts without the prefix.
Bodies ==
    {None} \cup { Some(command_prefix \o t) : t \in Tails }
           \cup { Some(t) : t \in {x \in Tails : Len(x) <= 1} }

\* The payloads: those that convert, with any body and any repository, and
\* one that does not convert.
Payloads ==
    { Payload(TRUE, b, name, o, c) :
        b \in Bodies, name \in RepoNames, o \in BOOLEAN, c \in BOOLEAN }
    \cup { Payload(FALSE, None, name, TRUE, TRUE) : name \in RepoNames }

\* A webhook with a verified signature is about to be handled.
IngressInit ==
    /\ InitService
    /\ hook \in { [NoHook EXCEPT !.payload = Some(p), !.outcome = "pending"] :
                    p \in Payloads }
    /\ call = NoCall

\* The handler runs on the payload received.
Webhook ==
    /\ hook.outcome = "pending"
    /\ IssueCommentHandler(hook.payload[1])

IngressNext ==
    \/ Webhook
    \/ \E t \in addTasks : AddTask(t)

IngressSpec == IngressInit /\ [][IngressNext]_vars

\* ------------------------------------------------ working directories
\* A path as the sequence of its components (Path::components): RootDir
\* and CurDir can only come first, ParentDir and normal components
\* anywhere.  A component is the sequence of its symbols.
RootDir   == <<SLASH>>
CurDir    == <<".">>
ParentDir == <<"..">>

\* Path::file_name: the last component when it is a normal one.
file_name(p) ==
    IF p # <<>> /\ p[Len(p)] \notin {RootDir, CurDir, ParentDir}
    THEN Some(p[Len(p)])
    ELSE None

\* PathBuf::pop: the path becomes its parent, if it has one.
pop(p) == IF p = <<>> \/ p = <<RootDir>> THEN p ELSE SubSeq(p, 1, Len(p) - 1)

\* PathBuf::push / Path::join of a single normal component.
push(p, name) == Append(p, name)

\* PathBuf::set_file_name: with a file name, pop and push; without, push.
set_file_name(p, name) ==
    IF file_name(p) # None THEN push(pop(p), name) ELSE push(p, name)

\* str::replace(from, to) on a sequence of symbols.
replace(s, from, to) == [i \in 1..Len(s) |-> IF s[i] = from THEN to ELSE s[i]]

\* The identity of a job that names its directory: repository id, issue
\* number, user login, owner login, repository name.
JobIdent(id, number, user, owner, name) ==
    [id |-> id, number |-> number, user |-> user, owner |-> owner,
     name |-> name]

\* Job::repo_dir: the root with its file name set to
\* format!("{}_{}_{}_{}_{}", id, number, user, owner, name): the two numbers
\* in decimal and the three strings as they are, symbol after symbol.
Job_repo_dir(root, job) ==
    LET dir_name == <<ToString(job.id), "_", ToString(job.number), "_">>
                    \o job.user \o <<"_">> \o job.owner \o <<"_">> \o job.name
    IN set_file_name(root, dir_name)

\* Git::repo_dir: the root joined with the url, every '/' of which is
\* replaced by '_'.
Git_repo_dir(root, url) == push(root, replace(url, SLASH, "_"))

\* Git::clone: the url is "https://github.com/<owner>/<name>".
GithubUrl(owner, name) ==
    <<"https:", SLASH, SLASH, "github.com", SLASH, owner, SLASH, name>>

\* The repositories roots: absolute and relative paths of up to MaxRoot
\* components, among them "./repos" (the default), "repos" and "/w/repos".
Roots ==
    UNION { { p \in [1..n -> {RootDir, CurDir, ParentDir, <<"repos">>, <<"w">>}] :
                \A i \in 2..n : p[i] \notin {RootDir, CurDir} } :
            n \in 1..MaxRoot }

\* The jobs and repositories a directory is computed for.
Idents ==
    { JobIdent(1, n, <<"u">>, <<"o">>, name) : n \in 1..2, name \in {<<"r">>, <<"s">>} }
Urls == { GithubUrl("o", name) : name \in {"r", "s"} }

\* The default of the option repos_root, "./repos".
DefaultRoot == <<CurDir, <<"repos">>>>

\* Logins and repository names: GitHub allows '_' in repository names and
\* in the logins of managed users.
Names == {<<"a">>, <<"a", "_", "a">>}

\* The jobs of two repositories, two issues, and users, owners and
\* repositories of these names.
NamedIdents ==
    { JobIdent(id, n, user, owner, name) :
        id \in 1..2, n \in 1..2, user \in Names, owner \in Names, name \in Names }

\* ------------------------------------------------- files of a checkout
\* The longest path a script passes to a file operation.
MaxPath == 3

\* The state of no variable but call changes.
CallFrame ==
    /\ UNCHANGED <<chanBuf, addTasks, reqs, nextJob, fails, extIssued,
                 hook, localRepo>>
    /\ UNCHANGED libVars
    /\ UNCHANGED queueVars
    /\ UNCHANGED workerVars

\* The state of no variable but localRepo changes.
RepoFrame ==
    /\ UNCHANGED <<chanBuf, addTasks, reqs, nextJob, fails, extIssued, hook, call>>
    /\ UNCHANGED libVars
    /\ UNCHANGED queueVars
    /\ UNCHANGED workerVars

\* LocalRepo.dir, the canonical absolute directory of the checkout, and a
\* directory that is not part of it.
Dir     == <<RootDir, <<"c">>>>
Outside == <<RootDir, <<"o">>>>

\* The file system the operations run on: directories, regular files and
\* two symbolic links in the checkout, to a directory and to a file outside.
Dirs  == {<<RootDir>>, Dir, Append(Dir, <<"d">>), Outside}
Files == {Append(Dir, <<"f">>), Append(Append(Dir, <<"d">>), <<"f">>),
          Append(Outside, <<"f">>)}
link_target(p) ==
    IF p = Append(Dir, <<"l">>) THEN Some(Outside)
    ELSE IF p = Append(Dir, <<"s">>) THEN Some(Append(Outside, <<"f">>))
    ELSE None

\* Path::is_absolute on components.
has_root(p) == p # <<>> /\ p[1] = RootDir

\* Path::join on components: an absolute path replaces the base; the "." a
\* relative path starts with does not show among the components of the
\* result.
Path_join(base, p) ==
    IF has_root(p) THEN p
    ELSE IF p # <<>> /\ p[1] = CurDir THEN base \o Tail(p)
    ELSE base \o p

\* The resolution of the components rest from the directory cur, as the
\* system does it: ".." goes to the parent, a link to its target, and a
\* component that does not exist, or lies in a file, fails.
RECURSIVE walk(_, _)
walk(cur, rest) ==
    IF rest = <<>> THEN Some(cur)
    ELSE IF cur \notin Dirs THEN None
    ELSE LET c   == Head(rest)
             nxt == Append(cur, c)
         IN  IF c = ParentDir THEN walk(pop(cur), Tail(rest))
             ELSE IF c = CurDir THEN walk(cur, Tail(rest))
             ELSE IF link_target(nxt) # None
                  THEN walk(link_target(nxt)[1], Tail(rest))
             ELSE IF nxt \in Dirs \cup Files THEN walk(nxt, Tail(rest))
             ELSE None

\* Path::canonicalize of an absolute path: the existing file it names, with
\* every link and ".." resolved.
canonicalize(p) == walk(<<RootDir>>, Tail(p))

\* The outcome of a file operation: ok or the error, and the file or
\* directory the operation opened, read or wrote, if it got that far.
FsOk(touched)       == [ok |-> TRUE, err |-> "", touched |-> Some(touched)]
FsErr(err)          == [ok |-> FALSE, err |-> err, touched |-> None]
FsFailedOn(err, at) == [ok |-> FALSE, err |-> err, touched |-> Some(at)]

\* LocalRepo::normalize_path: the canonical path, if it exists and starts
\* with the directory of the checkout.
normalize_path(path) ==
    LET full == IF ~has_root(path) THEN Path_join(Dir, path) ELSE path
        c    == canonicalize(full)
    IN  IF c # None /\ starts_with(c[1], Dir)
        THEN [ok |-> TRUE, err |-> "", path |-> c[1]]
        ELSE [ok |-> FALSE, err |-> "File or directory not found", path |-> <<>>]

\* LocalRepo::get_full_path: the normalized path of the directory joined
\* with the path.
get_full_path(path) ==
    LET n == normalize_path(Path_join(Dir, path)) IN
    IF n.ok /\ ~starts_with(n.path, Dir)
    THEN [ok |-> FALSE, err |-> "Path leads outside root", path |-> <<>>]
    ELSE n

\* LocalRepo::read_file: std::fs::read of the full path.
read_file(path) ==
    LET full == get_full_path(path) IN
    IF ~full.ok THEN FsErr(full.err)
    ELSE IF full.path \in Files THEN FsOk(full.path)
    ELSE FsFailedOn("Is a directory", full.path)

\* LocalRepo::list_files_in_dir: std::fs::read_dir of the full path.
list_files_in_dir(path) ==
    LET full == get_full_path(path) IN
    IF ~full.ok THEN FsErr(full.err)
    ELSE IF full.path \in Dirs THEN FsOk(full.path)
    ELSE FsFailedOn("Not a directory", full.path)

\* The error of write_file for a path with "..": the message, which sets
\* ../ in quotes.
NoParentDir == "no ../ allowed in path names"

\* A weaker test: only a path that starts with ".." is refused.
has_parent_dir_first(path) == path # <<>> /\ path[1] = ParentDir

\* The test of write_file: ".." is among the components of the path.
has_parent_dir(path) == \E i \in 1..Len(path) : path[i] = ParentDir

\* std::fs::write: the file is opened for writing, created if its directory
\* exists, and links are followed.
fs_write(p) ==
    LET c      == canonicalize(p)
        parent == canonicalize(pop(p))
    IN  IF c # None
        THEN IF c[1] \in Files THEN FsOk(c[1]) ELSE FsErr("Is a directory")
        ELSE IF parent # None /\ parent[1] \in Dirs /\ file_name(p) # None
             THEN FsOk(Append(parent[1], file_name(p)[1]))
             ELSE FsErr("No such file or directory")

\* LocalRepo::write_file: a path with ".." is refused; any other is joined
\* to the directory and written.
write_file(path) ==
    IF has_parent_dir(path) THEN FsErr(NoParentDir)
    ELSE fs_write(Path_join(Dir, path))

\* LocalRepo::add: the path goes to Index::add_path as it is.  The library
\* takes a path relative to the working directory and reads the entry
\* without following links.
add(path) ==
    LET full == Path_join(Dir, path)
    IN  IF has_root(path) \/ has_parent_dir(path) \/ file_name(full) = None
        THEN FsErr("invalid path")
        ELSE IF \E n \in 1..(Len(full) - 1) : link_target(SubSeq(full, 1, n)) # None
        THEN FsErr("invalid path")
        ELSE IF full \in Files \/ link_target(full) # None THEN FsOk(full)
        ELSE FsErr("could not find file to stat")

\* The paths a script passes: up to MaxPath components, among them the
\* names of the files, directories and links above and a new name.
PathArgs ==
    LET Comps == {RootDir, CurDir, ParentDir, <<"c">>, <<"d">>, <<"f">>,
                  <<"l">>, <<"s">>, <<"o">>, <<"n">>}
    IN  UNION { { p \in [1..n -> Comps] :
                    \A i \in 2..n : p[i] \notin {RootDir, CurDir} } :
                n \in 1..MaxPath }

\* A script calls read, ls, write or add on the handle of the checkout.
ReadFile ==
    /\ call.fn = "read" /\ call.ret = None
    /\ call' = [call EXCEPT !.ret = Some(read_file(call.args[1]))]
    /\ CallFrame

ListFilesInDir ==
    /\ call.fn = "ls" /\ call.ret = None
    /\ call' = [call EXCEPT !.ret = Some(list_files_in_dir(call.args[1]))]
    /\ CallFrame

WriteFile ==
    /\ call.fn = "write" /\ call.ret = None
    /\ call' = [call EXCEPT !.ret = Some(write_file(call.args[1]))]
    /\ CallFrame

AddPath ==
    /\ call.fn = "add" /\ call.ret = None
    /\ call' = [call EXCEPT !.ret = Some(add(call.args[1]))]
    /\ CallFrame

\* A directory is about to be computed for a root and a job or a url.
PathInit ==
    /\ InitService
    /\ hook = NoHook
    /\ call \in { [fn |-> "Job::repo_dir", args |-> <<root, j>>, ret |-> None] :
                    root \in Roots, j \in Idents }
           \cup { [fn |-> "Git::repo_dir", args |-> <<root, u>>, ret |-> None] :
                    root \in Roots, u \in Urls }
           \cup { [fn |-> "Job::repo_dir twice", args |-> <<DefaultRoot, i, j>>,
                   ret |-> None] : i \in NamedIdents, j \in NamedIdents }
           \cup { [fn |-> fn, args |-> <<path>>, ret |-> None] :
                    fn \in {"read", "ls", "write", "add"}, path \in PathArgs }

\* Job::checkout computes the directory of the job.
JobRepoDir ==
    /\ call.fn = "Job::repo_dir"
    /\ call.ret = None
    /\ call' = [call EXCEPT !.ret = Some(Job_repo_dir(call.args[1], call.args[2]))]
    /\ UNCHANGED <<chanBuf, addTasks, reqs, nextJob, fails, extIssued,
                 hook, localRepo>>
    /\ UNCHANGED libVars
    /\ UNCHANGED queueVars
    /\ UNCHANGED workerVars

\* Git::clone computes the directory of the clone.
GitRepoDir ==
    /\ call.fn = "Git::repo_dir"
    /\ call.ret = None
    /\ call' = [call EXCEPT !.ret = Some(Git_repo_dir(call.args[1], call.args[2]))]
    /\ UNCHANGED <<chanBuf, addTasks, reqs, nextJob, fails, extIssued,
                 hook, localRepo>>
    /\ UNCHANGED libVars
    /\ UNCHANGED queueVars
    /\ UNCHANGED workerVars

\* Two jobs are checked out under the same root.
JobRepoDirTwice ==
    /\ call.fn = "Job::repo_dir twice"
    /\ call.ret = None
    /\ call' = [call EXCEPT !.ret = Some(<<Job_repo_dir(call.args[1], call.args[2]),
                                           Job_repo_dir(call.args[1], call.args[3])>>)]
    /\ UNCHANGED <<chanBuf, addTasks, reqs, nextJob, fails, extIssued,
                 hook, localRepo>>
    /\ UNCHANGED libVars
    /\ UNCHANGED queueVars
    /\ UNCHANGED workerVars

PathNext ==
    \/ JobRepoDir \/ GitRepoDir \/ JobRepoDirTwice
    \/ ReadFile \/ ListFilesInDir \/ WriteFile \/ AddPath

PathSpec == PathInit /\ [][PathNext]_vars

\* ------------------------------------------------------ the script API
\* The longest error message of the script engine.
MaxMsg == 4

\* Whether the text pat occurs in the text s.
contains(s, pat) ==
    \E i \in 1..(Len(s) - Len(pat) + 1) : SubSeq(s, i, i + Len(pat) - 1) = pat

\* str::replace(pat, to) for a text pat that is not empty: the occurrences
\* of pat, found from the left and not overlapping, become to.
RECURSIVE replace_str(_, _, _)
replace_str(s, pat, to) ==
    IF s = <<>> THEN <<>>
    ELSE IF starts_with(s, pat)
    THEN to \o replace_str(SubSeq(s, Len(pat) + 1, Len(s)), pat, to)
    ELSE <<Head(s)>> \o replace_str(Tail(s), pat, to)

\* Path::to_string_lossy: the components of the path, separated by '/'.
RECURSIVE to_string_lossy(_)
to_string_lossy(p) ==
    IF p = <<>> THEN <<>>
    ELSE IF Len(p) = 1 THEN p[1]
    ELSE IF p[1] = RootDir THEN p[1] \o to_string_lossy(Tail(p))
    ELSE p[1] \o <<SLASH>> \o to_string_lossy(Tail(p))

\* Error::ScriptExecution(e), displayed as "Failed to execute script: {e}".
ScriptExecution(msg) ==
    [ok |-> FALSE, err |-> <<"Failed to execute script: ">> \o msg]

\* RunnableJob::run: compile_file, whose error is formatted and has the
\* directory of the checkout replaced by ".", then run_ast_with_scope, whose
\* error is returned as it is.  compiled and evaluated are the errors of the
\* engine, or None.
RunnableJob_run(compiled, evaluated) ==
    IF compiled # None
    THEN ScriptExecution(replace_str(compiled[1], to_string_lossy(Dir), <<".">>))
    ELSE IF evaluated # None THEN ScriptExecution(evaluated[1])
    ELSE [ok |-> TRUE, err |-> <<>>]

\* The messages of the engine and of the functions a script calls: texts
\* of up to MaxMsg symbols, with and without the directory of the checkout.
Msgs == UNION { [1..n -> {SLASH, "c", "e"}] : n \in 0..MaxMsg }

\* What becomes of the cargo process: it cannot be started, it exits with a
\* code, or it is ended by a signal.
SpawnError == [kind |-> "spawn error", code |-> 0, stdout |-> <<>>, stderr |-> <<>>]
Exited(code, stdout, stderr) ==
    [kind |-> "exited", code |-> code, stdout |-> stdout, stderr |-> stderr]
Signaled(stdout, stderr) ==
    [kind |-> "signaled", code |-> 0, stdout |-> stdout, stderr |-> stderr]

\* Run::run: Command::new("cargo") ... output(), turned into a CargoResult.
Run_run(output) ==
    CASE output.kind = "exited" ->
            [exit_code |-> Some(output.code), stdout |-> output.stdout,
             stderr |-> output.stderr]
      [] output.kind = "signaled" ->
            [exit_code |-> None, stdout |-> output.stdout,
             stderr |-> output.stderr]
      [] OTHER ->
            [exit_code |-> Some(-1), stdout |-> <<>>,
             stderr |-> <<"Error executing cargo: ", "e">>]

\* The directory the service was started in, which its processes inherit.
ServiceDir == <<RootDir>>

\* Run::new(args, dir).
Run_new(args, dir) == [args |-> args, dir |-> dir]

\* The process Run::run starts: Command::new("cargo").env_clear()
\* .stdin(Stdio::null()).args(self.args); current_dir is not called, so the
\* process runs in the directory of the service.
Command(run) ==
    [program |-> "cargo", env |-> {}, stdin |-> "null", args |-> run.args,
     current_dir |-> ServiceDir]

\* A test that takes a missing exit code for success.
is_ok_without_code(result) == result.exit_code \in {None, Some(0)}

\* CargoResult::is_ok.
is_ok(result) == result.exit_code = Some(0)

\* The custom syntax cargo $expr$: the value of the expression is cast to a
\* String and split as shell words, either of which may raise; then cargo
\* runs, and the script looks at is_ok() of the result.  (The messages set
\* the word cargo in quotes.)
cargo(value, output) ==
    IF ~value.is_string
    THEN [raised |-> Some("Failed to parse cargo arguments into a string"),
          result |-> None, is_ok |-> FALSE, command |-> None]
    ELSE IF ~shell_words_split(value.text).ok
    THEN [raised |-> Some("Failed to parse cargo arguments"),
          result |-> None, is_ok |-> FALSE, command |-> None]
    ELSE [raised |-> None, result |-> Some(Run_run(output)),
          is_ok |-> is_ok(Run_run(output)),
          command |-> Some(Command(Run_new(shell_words_split(value.text).words, Dir)))]

\* The values of the expression: not a string, and strings that split and
\* one that does not (a quote left open).
CargoValues ==
    {[is_string |-> FALSE, text |-> <<>>]}
        \cup { [is_string |-> TRUE, text |-> t] :
                 t \in {<<"b">>, <<"b", SP, "x">>, <<SQ, "b">>} }

\* The outcomes of the process.
Outputs ==
    {SpawnError}
        \cup { Exited(code, out, err) :
                 code \in {0, 1, 101}, out \in {<<>>, <<"o">>}, err \in {<<>>, <<"e">>} }
        \cup { Signaled(out, err) : out \in {<<>>, <<"o">>}, err \in {<<>>, <<"e">>} }

\* The most dependencies of the table dependencies of a manifest.
MaxDeps == 2

\* A TOML document as toml_edit holds it: a table is the sequence of its
\* entries <<key, item>>, in the order of the document, and an item is a
\* value (a string here), an inline table, a table or an array of tables.
Value(v)             == [kind |-> "value", value |-> v, entries |-> <<>>]
InlineTable(entries) == [kind |-> "inline table", value |-> "", entries |-> entries]
Table(entries)       == [kind |-> "table", value |-> "", entries |-> entries]
ArrayOfTables        == [kind |-> "array of tables", value |-> "", entries |-> <<>>]

\* Table::contains_key.
contains_key(entries, key) == \E i \in 1..Len(entries) : entries[i][1] = key

\* Table::remove_entry: the entries without the one of the key.
remove_entry(entries, key) == SelectSeq(entries, LAMBDA e : e[1] # key)

\* Table::insert: the item of a key that exists is replaced where it is, a
\* new key goes to the end.
insert(entries, key, item) ==
    IF contains_key(entries, key)
    THEN [i \in 1..Len(entries) |->
            IF entries[i][1] = key THEN <<key, item>> ELSE entries[i]]
    ELSE Append(entries, <<key, item>>)

\* A patch that overlooks inline tables.
patch_dependency_tables_only(dep, url, branch) ==
    IF dep.kind = "table" /\ contains_key(dep.entries, "path")
    THEN [dep EXCEPT !.entries =
            insert(insert(remove_entry(dep.entries, "path"),
                          "git", Value(url)), "branch", Value(branch))]
    ELSE dep

\* The body of the loop over the dependencies: a table or an inline table
\* from which remove_entry("path") removes something gets git and branch.
patch_dependency(dep, url, branch) ==
    IF dep.kind \in {"table", "inline table"} /\ contains_key(dep.entries, "path")
    THEN [dep EXCEPT !.entries =
            insert(insert(remove_entry(dep.entries, "path"),
                          "git", Value(url)), "branch", Value(branch))]
    ELSE dep

\* The tables of dependencies the function goes through.
DependencyTables == {"dependencies", "build-dependencies", "dev-dependencies"}

\* toml::replace_path_dependencies_with_git on the bytes of a document:
\* bytes that are not UTF-8, or not TOML, are an error; otherwise every
\* entry of the document that is one of the three tables, and is a table,
\* has its dependencies patched, and the document is written out.
replace_path_dependencies_with_git(toml, url, branch) ==
    IF ~toml.utf8 THEN [ok |-> FALSE, err |-> "toml is invalid UTF8", doc |-> <<>>]
    ELSE IF ~toml.parses
    THEN [ok |-> FALSE, err |-> "Not a valid toml document", doc |-> <<>>]
    ELSE [ok |-> TRUE, err |-> "",
          doc |-> [i \in 1..Len(toml.doc) |->
                     LET name == toml.doc[i][1]
                         item == toml.doc[i][2]
                     IN  IF name \in DependencyTables /\ item.kind = "table"
                         THEN <<name,
                                Table([j \in 1..Len(item.entries) |->
                                         <<item.entries[j][1],
                                           patch_dependency(item.entries[j][2],
                                                            url, branch)>>])>>
                         ELSE toml.doc[i]]]

\* The dependencies of the manifests: a version, inline tables and tables
\* with and without a path, one of them with a branch of its own, and an
\* array.
Dependencies ==
    { Value("1"),
      InlineTable(<<<<"path", Value("p")>>>>),
      InlineTable(<<<<"path", Value("p")>>, <<"version", Value("1")>>>>),
      InlineTable(<<<<"version", Value("1")>>>>),
      InlineTable(<<<<"branch", Value("old")>>, <<"path", Value("p")>>>>),
      Table(<<<<"path", Value("p")>>, <<"features", Value("f")>>>>),
      Table(<<<<"version", Value("1")>>>>),
      ArrayOfTables }

\* The dependencies of a table under the names "1", "2", ..., in the order
\* given.
Named(deps) == [j \in 1..Len(deps) |-> <<ToString(j), deps[j]>>]

\* The manifests: a package table, which has an entry with a path, and
\* the three tables of dependencies, absent, written as a table or written
\* as an inline table.
Manifests ==
    LET Package == <<<<"package", Table(<<<<"x", InlineTable(<<<<"path", Value("p")>>>>)>>>>)>>>>
        Deps    == {<<>>,
                    <<<<"dependencies",
                        InlineTable(<<<<"1", InlineTable(<<<<"path", Value("p")>>>>)>>>>)>>>>}
                   \cup { <<<<"dependencies", Table(Named(d))>>>> :
                            d \in UNION { [1..n -> Dependencies] : n \in 0..MaxDeps } }
        Dev     == {<<>>,
                    <<<<"dev-dependencies",
                        Table(Named(<<InlineTable(<<<<"path", Value("p")>>>>)>>))>>>>,
                    <<<<"dev-dependencies", Table(Named(<<Value("1")>>))>>>>}
        Build   == {<<>>,
                    <<<<"build-dependencies",
                        Table(Named(<<Table(<<<<"path", Value("p")>>>>)>>))>>>>}
    IN  { Package \o d \o v \o b : d \in Deps, v \in Dev, b \in Build }

\* The bytes a script passes: a manifest, bytes that are not TOML, and
\* bytes that are not UTF-8.
Tomls ==
    { [utf8 |-> TRUE, parses |-> TRUE, doc |-> m] : m \in Manifests }
        \cup { [utf8 |-> TRUE, parses |-> FALSE, doc |-> <<>>],
               [utf8 |-> FALSE, parses |-> FALSE, doc |-> <<>>] }

\* Index::add_path without effect on the index.
add_path_nothing(index, wt, p) == index

\* Index::add_path: the entry of the path becomes the file as it is.
add_path(index, wt, p) == [index EXCEPT ![p] = wt[p]]

\* Repository::statuses(None): the flags of a path, from the index against
\* the files and from the tree of HEAD against the index.
statuses(r, p) ==
    (IF r.index[p] = 0 /\ r.wt[p] # 0 THEN {"wt_new"} ELSE {})
    \cup (IF r.index[p] # 0 /\ r.wt[p] = 0 THEN {"wt_deleted"} ELSE {})
    \cup (IF r.index[p] # 0 /\ r.wt[p] # 0 /\ r.index[p] # r.wt[p]
          THEN {"wt_modified"} ELSE {})
    \cup (IF r.head[p] = 0 /\ r.index[p] # 0 THEN {"index_new"} ELSE {})
    \cup (IF r.head[p] # 0 /\ r.index[p] = 0 THEN {"index_deleted"} ELSE {})
    \cup (IF r.head[p] # 0 /\ r.index[p] # 0 /\ r.head[p] # r.index[p]
          THEN {"index_modified"} ELSE {})

\* Status::changed: the paths whose status is modified, renamed or of
\* another type in the working tree.
changed(r) ==
    { p \in RepoPaths :
        statuses(r, p) \cap {"wt_modified", "wt_renamed", "wt_typechange"} # {} }

\* The script works on the checkout.
InSession == call.fn = "LocalRepo"

\* write(p, blob): the file is written.
RepoWrite(p, c) ==
    /\ InSession
    /\ localRepo' = [localRepo EXCEPT !.wt[p] = c, !.staged = @ \ {p},
                            !.committed = @ \ {p}, !.changed = None]
    /\ RepoFrame

\* add(p): the path is added to the index of the repository, which the
\* later calls see; a file that does not exist is an error.
RepoAdd(p) ==
    /\ InSession
    /\ IF localRepo.wt[p] = 0
       THEN localRepo' = [localRepo EXCEPT !.changed = None]
       ELSE localRepo' = [localRepo EXCEPT
                             !.index = add_path(localRepo.index, localRepo.wt, p),
                             !.staged = @ \cup {p}, !.changed = None]
    /\ RepoFrame

\* commit(msg): the tree written from the index becomes the tree of a new
\* commit on HEAD; an error changes nothing.
RepoCommit(ok) ==
    /\ InSession
    /\ IF ok
       THEN localRepo' = [localRepo EXCEPT
                             !.head = localRepo.index,
                             !.committed = @ \cup localRepo.staged, !.changed = None]
       ELSE localRepo' = [localRepo EXCEPT !.changed = None]
    /\ RepoFrame

\* status().changed().
RepoStatus ==
    /\ InSession
    /\ localRepo' = [localRepo EXCEPT !.changed = Some(changed(localRepo))]
    /\ RepoFrame

\* A script is about to be run, or to evaluate a cargo expression.
ScriptInit ==
    /\ InitService
    /\ hook = NoHook
    /\ call \in { [fn |-> "RunnableJob::run", args |-> <<c, e>>, ret |-> None] :
                    c \in {None} \cup {Some(m) : m \in Msgs},
                    e \in {None, Some(<<"e">>)} }
           \cup { [fn |-> "RunnableJob::run", args |-> <<None, Some(m)>>,
                   ret |-> None] : m \in Msgs }
           \cup { [fn |-> "cargo", args |-> <<v, o>>, ret |-> None] :
                    v \in CargoValues, o \in Outputs }
           \cup { [fn |-> "replace_path_dependencies_with_git",
                   args |-> <<t, "url", "branch">>, ret |-> None] : t \in Tomls }
           \cup { [fn |-> "LocalRepo", args |-> <<>>, ret |-> None] }

\* The worker runs the script of the job.
RunScript ==
    /\ call.fn = "RunnableJob::run" /\ call.ret = None
    /\ call' = [call EXCEPT !.ret = Some(RunnableJob_run(call.args[1], call.args[2]))]
    /\ CallFrame

\* The script evaluates cargo <expr>.
CargoSyntax ==
    /\ call.fn = "cargo" /\ call.ret = None
    /\ call' = [call EXCEPT !.ret = Some(cargo(call.args[1], call.args[2]))]
    /\ CallFrame

\* The script patches a manifest.
ReplacePathDependencies ==
    /\ call.fn = "replace_path_dependencies_with_git" /\ call.ret = None
    /\ call' = [call EXCEPT !.ret =
                  Some(replace_path_dependencies_with_git(
                           call.args[1], call.args[2], call.args[3]))]
    /\ CallFrame

ScriptNext ==
    \/ RunScript \/ CargoSyntax \/ ReplacePathDependencies
    \/ \E p \in RepoPaths, c \in 1..MaxContent : RepoWrite(p, c)
    \/ \E p \in RepoPaths : RepoAdd(p)
    \/ \E ok \in BOOLEAN : RepoCommit(ok)
    \/ RepoStatus

ScriptSpec == ScriptInit /\ [][ScriptNext]_vars

\* -------------------------------------------------------- Job::checkout
\* The trees of a repository over the paths of the model.
Trees == [RepoPaths -> 0..MaxContent]

\* What Job::checkout finds at the directory of the job: nothing, a file,
\* a directory without a repository, or the repository an earlier job left:
\* the tree of HEAD (local commits), the index, the files (modified and
\* untracked ones) and the paths an ignore rule matches.
DirStates ==
    { [kind |-> k] : k \in {"absent", "file", "dir"} }
        \cup { [kind |-> "repo", head |-> h, index |-> i, wt |-> w, ignored |-> ign] :
                 h \in Trees, w \in Trees, i \in Trees, ign \in SUBSET {"g"} }

\* The remote: whether it answers, and the tree of refs/pull/<n>/head.
Remotes == { [answers |-> a, pull_head |-> t] : a \in BOOLEAN, t \in Trees }

\* The match on std::fs::metadata taking a file for a missing path.
metadata_arm_file_as_missing(dir) ==
    IF dir.kind \in {"dir", "repo"} THEN "open" ELSE "clone"

\* The match on std::fs::metadata(&dir): a directory is opened, a missing
\* path is cloned into, anything else is Error::NoDirectory.
metadata_arm(dir) ==
    CASE dir.kind \in {"dir", "repo"} -> "open"
      [] dir.kind = "absent"          -> "clone"
      [] OTHER                        -> "NoDirectory"

\* A checkout that only forces.
reset_options_force_only ==
    [remove_untracked |-> FALSE, remove_ignored |-> FALSE, force |-> TRUE]

\* CheckoutBuilder::new().remove_untracked(true).remove_ignored(true).force()
reset_options ==
    [remove_untracked |-> TRUE, remove_ignored |-> TRUE, force |-> TRUE]

\* Repository::reset(rev, Hard, checkout): HEAD and the index become the
\* tree of rev; a file of the tree is written, a tracked file that is not in
\* the tree is removed when forced, an untracked or ignored file is removed
\* when the option says so.
reset(r, tree, opts) ==
    LET tracked(p) == r.index[p] # 0 \/ r.head[p] # 0
        file(p) ==
            IF tracked(p) \/ tree[p] # 0
            THEN IF opts.force \/ r.wt[p] = r.index[p] THEN tree[p] ELSE r.wt[p]
            ELSE IF p \in r.ignored
                 THEN IF opts.remove_ignored THEN 0 ELSE r.wt[p]
                 ELSE IF opts.remove_untracked THEN 0 ELSE r.wt[p]
    IN  [r EXCEPT !.head = tree, !.index = tree,
                  !.wt = [p \in RepoPaths |-> file(p)]]

\* RepoBuilder::clone: the default branch checked out in a new directory.
clone ==
    [kind |-> "repo", head |-> Checkout.head, index |-> Checkout.index,
     wt |-> Checkout.wt, ignored |-> {}]

\* Job::checkout(root): the result, the git operations performed in order
\* and what is at the directory afterwards.
Job_checkout(dir, remote) ==
    LET arm == metadata_arm(dir)
        Fails(e, ops, d) == [result |-> e, ops |-> ops, dir |-> d]
        Fetched(first, r) ==
            IF ~remote.answers
            THEN Fails("Git", <<first, "fetch">>, r)
            ELSE [result |-> "Ok", ops |-> <<first, "fetch", "reset">>,
                  dir |-> reset(r, remote.pull_head, reset_options)]
    IN  CASE arm = "NoDirectory" -> Fails("NoDirectory", <<>>, dir)
          [] arm = "open" ->
                IF dir.kind = "repo" THEN Fetched("open", dir)
                ELSE Fails("Git", <<"open">>, dir)
          [] arm = "clone" ->
                IF remote.answers THEN Fetched("clone", clone)
                ELSE Fails("Git", <<"clone">>, dir)

CheckoutInit ==
    /\ InitService
    /\ hook = NoHook
    /\ call \in { [fn |-> "Job::checkout", args |-> <<d, r>>, ret |-> None] :
                    d \in DirStates, r \in Remotes }

\* The worker checks the job out.
JobCheckout ==
    /\ call.fn = "Job::checkout" /\ call.ret = None
    /\ call' = [call EXCEPT !.ret = Some(Job_checkout(call.args[1], call.args[2]))]
    /\ CallFrame

CheckoutNext == JobCheckout

CheckoutSpec == CheckoutInit /\ [][CheckoutNext]_vars

\* ------------------------------------------------------- the executor
\* The most threads of the executor.
MaxThreads == 2

\* The threads of the async-std executor on which main spawns the worker
\* task and on which app.listen runs the handlers and the tasks they spawn:
\* the number of CPUs of the host, or ASYNC_STD_THREAD_COUNT.
Threads == call.args[1]

ExecInit ==
    /\ InitService
    /\ hook = NoHook
    /\ call \in { [fn |-> "async_std::task::spawn", args |-> <<n>>, ret |-> None] :
                    n \in 1..MaxThreads }

\* From the job it received to the head of its loop the worker task does
\* not yield: rt_handle.block_on for the token, run(...) whose body has no
\* await that suspends (checkout, the script and its processes are
\* synchronous calls), and rt_handle.block_on for the comment.  The thread
\* of the executor that polls the task is taken for that time.
WorkerBlocks == wpc \in {"mint", "run", "report", "comment"}

\* A thread of the executor can poll another task.
FreeThread == Threads > (IF WorkerBlocks THEN 1 ELSE 0)

\* A handler or a spawned task is polled.
ExecIssueComment == FreeThread /\ \E p \in ServicePayloads : IssueCommentHandler(p)
ExecAddTask == FreeThread /\ \E t \in addTasks : AddTask(t)
ExecSendTask == FreeThread /\ \E t \in sendTasks : SendTask(t)
ExecRemoveFromQueue == FreeThread /\ \E r \in ReqIds : RemoveFromQueue(r)
ExecRecvJob == FreeThread /\ \E r \in ReqIds : RecvJob(r)

ExecNext ==
    \/ ExecIssueComment
    \/ ExecAddTask
    \/ ExecSendTask
    \/ ExecRemoveFromQueue
    \/ ExecRecvJob
    \/ GetJob
    \/ ReceiveJob
    \/ \E ok \in BOOLEAN : MintToken(ok)
    \/ \E ok \in BOOLEAN : RunJob(ok)
    \/ ReportError
    \/ \E posted \in BOOLEAN : CreateComment(posted)
    \/ \E qs \in Queries : ExtRequest(qs)
    \/ \E r \in ReqIds : ExtReceive(r)

ExecSpec == ExecInit /\ [][ExecNext]_vars

\* ----------------------------------------------------------------- claims
\* The sequence q without its i-th entry.
Without(q, i) == SubSeq(q, 1, i - 1) \o SubSeq(q, i + 1, Len(q))

\* The number of jobs equal to j held in the places a job can be in.
InQueue(j)  == \E i \in 1..Len(queue) : queue[i].job = j
Copies(j) ==
    Cardinality({i \in 1..Len(queue) : queue[i].job = j})
    + Cardinality({t \in sendTasks : t.job = j})
    + Cardinality({c \in ReqIds : chanBuf[c] = <<j>>})
    + Cardinality({r \in ReqIds : reqs[r].pc = "responded"
                                   /\ reqs[r].body = Some(j)})
    + Cardinality({x \in running : x = j})

\* C1: a remove() that returns a job returns the value of the entry that
\* was inserted earliest among the entries stored at that moment, and takes
\* exactly that entry out; the other entries keep their order.  A re-added
\* key counts from its insertion.
C1_RemoveReturnsEarliest ==
    (last.op = "remove" /\ last.ret # None) =>
        \E i \in 1..Len(last.preQueue) :
            /\ last.ret = Some(last.preQueue[i].job)
            /\ \A m \in 1..Len(last.preQueue) :
                   last.preQueue[i].t <= last.preQueue[m].t
            /\ queue = Without(last.preQueue, i)

\* C1 witness: a remove of a front entry that was re-added after the entry
\* behind it was added.
C1_Witness ==
    /\ last.op = "remove"
    /\ Len(last.preQueue) >= 2
    /\ last.ret = Some(last.preQueue[1].job)
    /\ last.preQueue[1].job > last.preQueue[2].job

\* The add of job j has run.
Added(j) == j < nextJob /\ \A t \in addTasks : t.job # j

\* C2: a job is handed out at most once: at any moment at most one copy of
\* it exists in the queue, the send tasks, the channels, the responses and
\* the worker (so it is never both stored and handed to a watcher, nor in
\* two channels or two responses), and once the copy is gone no step brings
\* the job back.
C2_HandedOutAtMostOnce ==
    /\ [](\A j \in JobIds : Copies(j) <= 1)
    /\ [][\A j \in JobIds :
             (Added(j) /\ Copies(j) = 0) => Copies(j)' = 0]_vars

\* C2 witness: a request answered with the job its watcher received, while
\* another job is stored in the queue.
C2_Witness ==
    \E r \in ReqIds :
        /\ reqs[r].pc = "responded"
        /\ reqs[r].reg
        /\ reqs[r].body # None
        /\ queue # <<>>

\* C4: at most one job is in flight, and while a dequeue request of the
\* worker is outstanding no job is in flight: the worker asks for the next
\* job only after checkout, script and error report of the current one.
C4_OneJobInFlight ==
    /\ Cardinality(running) <= 1
    /\ wpc = "await" => running = {}
    /\ wpc \in {"mint", "run", "report", "comment"}
           => running = {wjob}

\* C4 witness: a job is being reported on while another one waits in the
\* queue.
C4_Witness ==
    /\ wpc = "report"
    /\ running = {wjob}
    /\ queue # <<>>

C6_ReAddInPlace ==
    (/\ last.op = "add"
     /\ last.preWatchers = <<>>
     /\ pos(last.preQueue, last.key) # None) =>
        /\ len(queue) = len(last.preQueue)
        /\ pos(queue, last.key) = pos(last.preQueue, last.key)
        /\ \A i \in 1..Len(queue) :
               /\ queue[i].key = last.preQueue[i].key
               /\ queue[i].job = IF queue[i].key = last.key THEN last.job
                                 ELSE last.preQueue[i].job

\* C6 witness: the key at the front was re-added with another entry behind.
C6_Witness ==
    /\ last.op = "add"
    /\ last.preWatchers = <<>>
    /\ pos(last.preQueue, last.key) = Some(0)
    /\ len(last.preQueue) >= 2

\* C7: add returns the 0-based position of the entry: pos(key) afterwards
\* when the job was stored, the length of the queue (the position it would
\* have had) when it went to a watcher.
C7_AddReturnsPosition ==
    last.op = "add" =>
        last.ret = IF last.preWatchers = <<>> THEN pos(queue, last.key)
                   ELSE Some(len(last.preQueue))

\* C9: a dequeue request with long_poll=false or without long_poll that
\* finds the queue empty is answered 404 in the step that looked at the
\* queue, and queue and watchers are unchanged.
C9_EmptyNoLongPoll404 ==
    [][\A r \in ReqIds :
          (/\ reqs[r].pc = "sent"
           /\ reqs'[r].pc \notin {"sent", "unused"}
           /\ reqs[r].lp \in {"long_poll=false", ""}
           /\ is_empty(queue)) =>
              /\ reqs'[r].pc = "responded"
              /\ reqs'[r].status = 404
              /\ reqs'[r].body = None
              /\ watchers' = watchers
              /\ queue' = queue]_vars

\* C9 witness: a request without long_poll answered 404.
C9_Witness ==
    \E r \in ReqIds :
        /\ reqs[r].pc = "responded"
        /\ reqs[r].lp = ""
        /\ reqs[r].status = 404

\* C3: no job passed to add is lost: the copy of a job leaves the system
\* only when the worker, having received it, finishes with it.
C3_NoAcceptedJobLost ==
    [][\A j \in JobIds :
          (Copies(j) = 1 /\ Copies(j)' = 0) =>
              (j \in running /\ j \notin running')]_vars

\* C8: a long-poll request that registered a watcher is answered only after
\* an add, with status 200 and the job of the first add made after it
\* registered, and the queue is empty while its watcher is registered.
C8_LongPollGetsNextAdd ==
    \A r \in ReqIds :
        /\ (\E i \in 1..Len(watchers) : watchers[i] = r) => len(queue) = 0
        /\ (reqs[r].reg /\ reqs[r].pc = "responded") =>
               /\ reqs[r].status = 200
               /\ reqs[r].next # None
               /\ reqs[r].body = reqs[r].next

\* C10: with the worker as the only long-poll client at most one watcher is
\* registered.
C10_AtMostOneWatcher == Len(watchers) <= 1

\* ------------------------------------------------- claims on the ingress
\* The handler ran on the webhook.
Handled == hook.outcome \notin {"none", "pending"}

\* The comment of the webhook is a command: it converts, has a body and the
\* body starts with the command prefix.
IsCommand ==
    /\ hook.payload # None
    /\ hook.payload[1].parses
    /\ hook.payload[1].body # None
    /\ starts_with(hook.payload[1].body[1], command_prefix)

\* The first line of a body: the text up to the first newline, or all of it.
first_line(body) ==
    IF split_once(body, NL) = None THEN body ELSE split_once(body, NL)[1][1]

FirstLine == first_line(hook.payload[1].body[1])

\* str::split_whitespace of a line: the non-empty pieces between spaces.
split_whitespace(line) == SelectSeq(str_split(line, SP), LAMBDA w : w # <<>>)

\* The tokens of a command line as specified: its shell words, and its
\* white-space separated pieces when it has unbalanced quotes.
line_tokens(line) ==
    IF shell_words_split(line).ok THEN shell_words_split(line).words
    ELSE split_whitespace(line)

\* Nothing was enqueued, spawned or delivered.
NothingEnqueued ==
    /\ addTasks = {}
    /\ queue = <<>>
    /\ watchers = <<>>
    /\ sendTasks = {}
    /\ \A c \in ReqIds : chanBuf[c] = <<>>

\* C12: on a verified webhook the handler completes: it accepts the comment
\* or returns without a job (ignored or logged and dropped) and then leaves
\* queue and watchers unchanged; it never panics.
C12_IngressAlwaysCompletes ==
    Handled =>
        /\ hook.outcome \in {"accepted", "dropped", "ignored"}
        /\ hook.outcome # "accepted" => NothingEnqueued

\* C13: the command stored in the job of an accepted webhook has at least
\* two tokens.
C13_StoredCommandTwoTokens ==
    /\ hook.outcome = "accepted" => Len(hook.command) >= 2
    /\ \A t \in addTasks : Len(t.command) >= 2

\* C13 (amended): the command of an accepted webhook was prepared from at
\* least two tokens, and the stored command has one token less, so at least
\* one: the script path, followed by the arguments.
C13_StoredCommandNonEmpty ==
    /\ hook.outcome = "accepted" =>
           /\ Len(hook.tokens) >= 2
           /\ Len(hook.command) = Len(hook.tokens) - 1
    /\ \A t \in addTasks : Len(t.command) >= 1

\* C13 witness: an accepted command of exactly two tokens, stored as one.
C13_Witness ==
    /\ hook.outcome = "accepted"
    /\ Len(hook.tokens) = 2
    /\ \E t \in addTasks : Len(t.command) = 1

\* C14: a command whose first line has fewer than two tokens is rejected:
\* no job is created and the queue is unchanged.
C14_ShortCommandRejected ==
    (Handled /\ IsCommand /\ Len(line_tokens(FirstLine)) < 2) =>
        /\ hook.outcome # "accepted"
        /\ NothingEnqueued

\* A path with every run of separators taken as one separator.
RECURSIVE collapse(_)
collapse(p) ==
    IF Len(p) < 2 THEN p
    ELSE IF p[1] = SLASH /\ p[2] = SLASH THEN collapse(Tail(p))
    ELSE <<p[1]>> \o collapse(Tail(p))

\* C15: the stored command of an accepted command [t0, t1, a1..an] is
\* [".github/<t0 without one leading '/'>/<t1>.rhai", a1..an] (repeated
\* separators of the path counting as one).
C15_ScriptResolution ==
    hook.outcome = "accepted" =>
        LET t0 == hook.tokens[1]
            t1 == hook.tokens[2]
            ns == IF t0 # <<>> /\ t0[1] = SLASH THEN Tail(t0) ELSE t0
        IN
        /\ collapse(hook.command[1]) =
               collapse(<<".github", SLASH>> \o ns \o <<SLASH>> \o t1
                        \o <<".rhai">>)
        /\ Tail(hook.command) = SubSeq(hook.tokens, 3, Len(hook.tokens))

\* C16: the tokens of a command are the shell words of the first line of
\* the body, whether the body has a newline or not.
C16_FirstLineShellWords ==
    (/\ Handled
     /\ IsCommand
     /\ shell_words_split(FirstLine).ok
     /\ hook.outcome # "panicked") =>
        hook.tokens = shell_words_split(FirstLine).words

\* C17: when the first line does not split as shell words the handler does
\* not abort, and it makes a job of the white-space separated tokens when
\* there are two of them and the repository is complete.
C17_FallbackOnSplitFailure ==
    (Handled /\ IsCommand /\ ~ shell_words_split(FirstLine).ok) =>
        /\ hook.outcome # "panicked"
        /\ (/\ Len(split_whitespace(FirstLine)) >= 2
            /\ hook.payload[1].owner
            /\ hook.payload[1].clone_url) => hook.outcome = "accepted"

\* C18: a webhook whose repository lacks an owner or a clone_url never
\* becomes a job: nothing is enqueued or delivered, and when the handler
\* gets to the conversion it fails with MissingRepositoryField.
C18_IncompleteRepositoryRejected ==
    (/\ Handled
     /\ ~ (hook.payload[1].owner /\ hook.payload[1].clone_url)) =>
        /\ hook.outcome # "accepted"
        /\ NothingEnqueued
        /\ (hook.outcome = "dropped" /\ Len(hook.tokens) >= 2) =>
               hook.err = IF ~ hook.payload[1].owner
                          THEN "MissingRepositoryField(owner)"
                          ELSE "MissingRepositoryField(clone_url)"

\* C18 witness: a well-formed command dropped for its missing clone_url.
C18_Witness ==
    /\ hook.outcome = "dropped"
    /\ Len(hook.tokens) >= 2
    /\ hook.payload[1].owner
    /\ hook.err = "MissingRepositoryField(clone_url)"

\* The key without its uuid: repository name and command.
KeyStem(k) == SubSeq(k, 1, Len(k) - 1)

\* C19: the keys of distinct accepted webhooks are distinct, and the add of
\* an accepted job made with no watcher registered increases len() by one,
\* so two invocations with equal name and command increase it by 2.
C19_NoDedupOfRepeats ==
    /\ [](/\ \A t, u \in addTasks : t.job # u.job => t.key # u.key
          /\ \A t \in addTasks : pos(queue, t.key) = None
          /\ \A i, m \in 1..Len(queue) : i # m => queue[i].key # queue[m].key)
    /\ [][\A t \in addTasks :
             (addTasks' = addTasks \ {t} /\ watchers = <<>>) =>
                 len(queue') = len(queue) + 1]_vars

\* C19 witness: two jobs of the same repository and command are stored.
C19_Witness ==
    /\ len(queue) = 2
    /\ KeyStem(queue[1].key) = KeyStem(queue[2].key)
    /\ queue[1].job # queue[2].job

\* ------------------------------------------ claims on working directories
\* Path::starts_with, strictly: base is a proper prefix of p.
ProperPrefix(base, p) ==
    Len(base) < Len(p) /\ SubSeq(p, 1, Len(base)) = base

\* C20: the directory computed for a job or for a clone lies beneath the
\* repositories root: the root is a proper prefix of it.
C20_DirBeneathRoot ==
    (call.fn \in {"Job::repo_dir", "Git::repo_dir"} /\ call.ret # None) =>
        ProperPrefix(call.args[1], call.ret[1])

\* C21: two jobs are given the same directory exactly when they agree on
\* the repository id, the issue number, the user, the owner and the name of
\* the repository.
C21_DirNameInjective ==
    (call.fn = "Job::repo_dir twice" /\ call.ret # None) =>
        (call.ret[1][1] = call.ret[1][2] <=> call.args[2] = call.args[3])

\* ------------------------------------------- claims on the files of a checkout
\* A file operation on the handle of the checkout has returned.
FileOps == {"read", "ls", "write", "add"}
FileOpDone == call.fn \in FileOps /\ call.ret # None

\* C22: whatever path a file operation of the handle is given, the file or
\* directory it opens, reads or writes lies in the directory of the
\* checkout; otherwise it fails and touches nothing.
C22_FileOpsStayInCheckout ==
    FileOpDone =>
        /\ call.ret[1].touched # None => starts_with(call.ret[1].touched[1], Dir)
        /\ call.ret[1].touched = None => ~call.ret[1].ok

\* C23: a write whose path has ".." among its components, wherever, fails
\* with the error for it and writes nothing.
C23_WriteRefusesParentDir ==
    (/\ FileOpDone /\ call.fn = "write"
     /\ \E i \in DOMAIN call.args[1] : call.args[1][i] = ParentDir) =>
        call.ret[1] = FsErr(NoParentDir)

\* A write of "d/../n", which names a new file of the checkout, was refused.
C23_Witness ==
    /\ FileOpDone /\ call.fn = "write"
    /\ call.args[1] = <<<<"d">>, ParentDir, <<"n">>>>
    /\ ~call.ret[1].ok

\* ------------------------------------------------- claims on the worker
\* C24: a job whose run fails gets one call of create_comment, on its own
\* issue, and the iteration ends when the call returns, posted or not; the
\* call is made for no other job.
C24_OneCommentPerFailedJob ==
    [][/\ wpc = "report" => (wpc' = "comment" /\ wjob' = wjob)
       /\ wpc = "comment" => (wpc' = "idle" /\ wjob' = 0)
       /\ wpc' = "comment" => wpc = "report"
       /\ (wpc = "run" /\ wpc' = "idle") => wjob' = 0]_workerVars

\* The comment on the failed run of a job is being posted.
C24_Witness == wpc = "comment" /\ wjob # 0 /\ running = {wjob}

\* C25: the worker task does not end, and after a failed run, a failed
\* comment or a failed dequeue the worker sends its next dequeue request.
C25_WorkerNeverStops ==
    /\ [](wpc # "dead")
    /\ (wpc \in {"report", "comment"}) ~> (wpc = "await")

\* C26: when the token of a job cannot be minted the iteration ends there:
\* the worker is back at the head of its loop and the job is not put back
\* in the queue.
C26_MintFailureIsJobLevel ==
    [][(wpc = "mint" /\ wpc' \notin {"mint", "run"}) =>
          (wpc' = "idle" /\ \A i \in 1..Len(queue') : queue'[i].job # wjob)]_vars

\* ------------------------------------------------ claims on the script API
\* C27: the error of a script that does not compile or does not evaluate
\* does not contain the directory of the checkout.
C27_ErrorsWithoutCheckoutPath ==
    (call.fn = "RunnableJob::run" /\ call.ret # None /\ ~call.ret[1].ok) =>
        ~contains(call.ret[1].err, to_string_lossy(Dir))

\* The expression of a cargo form was a string that splits into words.
CargoRan ==
    /\ call.fn = "cargo" /\ call.ret # None
    /\ call.args[1].is_string
    /\ shell_words_split(call.args[1].text).ok

\* C28: whatever becomes of the process, the cargo form raises nothing and
\* gives a result: exit code -1, no stdout and some stderr when the process
\* could not be started, the code of the process when it exited, and is_ok()
\* exactly when the process exited with code 0.
C28_CargoNeverRaises ==
    CargoRan =>
        LET output == call.args[2]
            ret    == call.ret[1]
        IN  /\ ret.raised = None /\ ret.result # None
            /\ output.kind = "spawn error" =>
                  /\ ret.result[1].exit_code = Some(-1)
                  /\ ret.result[1].stdout = <<>>
                  /\ ret.result[1].stderr # <<>>
            /\ output.kind = "exited" =>
                  ret.result[1].exit_code = Some(output.code)
            /\ ret.is_ok <=> (output.kind = "exited" /\ output.code = 0)

\* cargo could not be started, and the script got a result.
C28_Witness ==
    CargoRan /\ call.args[2].kind = "spawn error" /\ ~call.ret[1].is_ok

\* The item of a key of a table, and the keys of a table.
ItemOf(entries, key) ==
    LET i == CHOOSE i \in 1..Len(entries) : entries[i][1] = key IN entries[i][2]
Keys(entries) == { entries[i][1] : i \in 1..Len(entries) }

\* The dependency new is the dependency old with git and branch in the
\* place of its path, and its other keys as they were.
Repointed(old, new, url, branch) ==
    /\ new.kind = old.kind
    /\ Keys(new.entries) = (Keys(old.entries) \ {"path"}) \cup {"git", "branch"}
    /\ Len(new.entries) = Cardinality(Keys(new.entries))
    /\ ItemOf(new.entries, "git") = Value(url)
    /\ ItemOf(new.entries, "branch") = Value(branch)
    /\ \A k \in Keys(old.entries) \ {"path", "git", "branch"} :
          ItemOf(new.entries, k) = ItemOf(old.entries, k)

\* A dependency that is a table or an inline table with a path.
HasPath(dep) ==
    /\ dep.kind \in {"table", "inline table"}
    /\ \E i \in 1..Len(dep.entries) : dep.entries[i][1] = "path"

\* A manifest was patched.
Patched ==
    /\ call.fn = "replace_path_dependencies_with_git" /\ call.ret # None
    /\ call.args[1].utf8 /\ call.args[1].parses

C30_CommittedPathsNotChanged ==
    localRepo.changed # None => localRepo.changed[1] \cap localRepo.committed = {}

\* A status taken after a commit of the new file g reports the change of f,
\* written after the commit.
C30_Witness ==
    /\ localRepo.changed = Some({"f"})
    /\ localRepo.committed = {"g"}
    /\ localRepo.head["g"] # 0

\* Job::checkout has returned.
CheckedOut == call.fn = "Job::checkout" /\ call.ret # None

C32_NoDirectoryBeforeAnyGit ==
    (CheckedOut /\ call.args[1].kind = "file")
        => /\ call.ret[1].result = "NoDirectory"
           /\ call.ret[1].ops = <<>>
           /\ call.ret[1].dir = call.args[1]

C32_Witness ==
    /\ CheckedOut /\ call.args[1].kind = "file"
    /\ call.args[2].answers
    /\ call.ret[1].result = "NoDirectory"

\* The worker holds the installation client built from the token it minted
\* at the head of the iteration, before the run.
HoldsTokenFromBeforeRun == wpc \in {"run", "report", "comment"}

\* C33: the token of the worker's error comment is minted after the job
\* failed: once the run has returned Err, the worker does not go on to
\* create_comment with the client it holds from before the run; a mint
\* comes first.
C33_ErrorCommentTokenIsFresh ==
    [][(wpc = "report" /\ HoldsTokenFromBeforeRun) => wpc' # "comment"]_workerVars

\* C34: a cargo process that a script starts runs in the directory of the
\* checkout of the job, with no environment variable and with a null stdin.
C34_CargoRunsInCheckout ==
    CargoRan
        => /\ call.ret[1].command # None
           /\ call.ret[1].command[1].current_dir = Dir
           /\ call.ret[1].command[1].env = {}
           /\ call.ret[1].command[1].stdin = "null"

\* C35: while the worker runs a job, a spawned add of an accepted webhook
\* can run and a dequeue request that has arrived can be handled.
C35_RunningJobDoesNotBlockIngress ==
    WorkerBlocks
        => /\ addTasks # {} => ENABLED ExecAddTask
           /\ (\E r \in ReqIds : reqs[r].pc = "sent") => ENABLED ExecRemoveFromQueue

\* C36: no job is stored in the queue while a watcher is registered: the
\* handler of a dequeue request looks at the queue and registers its watcher
\* under one lock, and add stores a job only when no watcher is registered.
C36_NoLostWakeup == ~(len(queue) > 0 /\ watchers # <<>>)

\* A long-poll request registered its watcher and still waits for the job
\* that an add handed to it, while a later add has stored its job.
C36_Witness ==
    /\ len(queue) > 0
    /\ \E r \in ReqIds :
          /\ reqs[r].pc = "waiting" /\ reqs[r].reg
          /\ reqs[r].next # None

\* Job j has left the queue: its add has run and it is not stored (it was
\* removed by a dequeue request or handed to a watcher).
Dequeued(j) == Added(j) /\ ~InQueue(j)

\* C37: jobs leave the queue in the order in which their webhooks were
\* handled (the order of their numbers): when a job has been dequeued, every
\* job of an earlier webhook has been dequeued.
C37_DequeuedInWebhookOrder ==
    \A a, b \in JobIds : (a < b /\ Dequeued(b)) => Dequeued(a)

\* CheckedoutJob::script_path: the command of the job (the first line of
\* the comment) split at spaces; the first piece without one leading '/' is
\* the directory, the second with ".rhai" the file, both joined as paths to
\* ".github".  None is Err(Error::NoCmd).
CheckedoutJob_script_path(command) ==
    LET pieces == str_split(command, SP)
        dir    == IF strip_prefix(pieces[1], SLASH) # None
                  THEN strip_prefix(pieces[1], SLASH)[1]
                  ELSE pieces[1]
    IN  IF Len(pieces) < 2 THEN None
        ELSE Some(path_join(path_join(<<".github">>, dir),
                            pieces[2] \o <<".rhai">>))

\* RunnableJob::run: the file given to compile_file, self.dir.join(self.script_path).
compile_file_path(dir, script_path) == path_join(to_string_lossy(dir), script_path)

\* The first token without one leading '/'.
Namespace(token) ==
    IF strip_prefix(token, SLASH) # None THEN strip_prefix(token, SLASH)[1] ELSE token

\* The file lies beneath <checkout>/.github/<namespace>/, repeated
\* separators counting as one (the texts of the model have no "." and so no
\* ".." component).
BeneathNamespace(file, namespace) ==
    starts_with(collapse(file),
                collapse(to_string_lossy(Dir) \o <<SLASH, ".github", SLASH>>
                             \o namespace \o <<SLASH>>))

\* C38: the script that the worker compiles for an accepted comment lies
\* beneath <checkout>/.github/<namespace>/, whatever its tokens contain:
\* both for the script path that the handler stores as the command of the
\* job and for the one script_path makes of the first line of the comment.
C38_ScriptBeneathNamespace ==
    hook.outcome = "accepted" =>
        /\ BeneathNamespace(compile_file_path(Dir, hook.command[1]),
                            Namespace(hook.tokens[1]))
        /\ CheckedoutJob_script_path(FirstLine) # None =>
              BeneathNamespace(
                  compile_file_path(Dir, CheckedoutJob_script_path(FirstLine)[1]),
                  Namespace(str_split(FirstLine, SP)[1]))

\* C39: a job is created only for a comment whose first token is the
\* command prefix itself, so that the namespace directory of its script is
\* the prefix without its leading '/'.
C39_NamespaceIsPrefix ==
    hook.outcome = "accepted" =>
        /\ hook.tokens[1] = command_prefix
        /\ Namespace(hook.tokens[1]) = Tail(command_prefix)

\* The keys stored in q.
Present(q) == { q[i].key : i \in 1..Len(q) }

\* C40: pos is consistent with the order of dequeue: the i-th entry has pos
\* i - 1, so the keys present map one-to-one onto 0..len()-1; pos is None
\* exactly for the keys that are absent; a remove() that finds entries
\* returns the one with pos 0, takes its key out and lowers the pos of every
\* other key by exactly 1; a remove() on the empty queue returns None and
\* changes nothing.
C40_PosFollowsDequeueOrder ==
    /\ \A i \in 1..Len(queue) : pos(queue, queue[i].key) = Some(i - 1)
    /\ { pos(queue, k)[1] : k \in Present(queue) } = 0..(len(queue) - 1)
    /\ Cardinality(Present(queue)) = len(queue)
    /\ \A k \in LibKeys : (pos(queue, k) = None) <=> (k \notin Present(queue))
    /\ last.op = "remove" =>
          IF last.preQueue = <<>>
          THEN /\ last.ret = None
               /\ queue = last.preQueue
               /\ watchers = last.preWatchers
          ELSE \E k \in Present(last.preQueue) :
                  /\ pos(last.preQueue, k) = Some(0)
                  /\ last.ret = Some(last.preQueue[IndexOf(last.preQueue, k)].job)
                  /\ pos(queue, k) = None
                  /\ \A m \in Present(last.preQueue) \ {k} :
                        /\ pos(queue, m) # None
                        /\ pos(queue, m)[1] = pos(last.preQueue, m)[1] - 1

\* A remove() that returned the front entry and left another one stored.
C40_Witness ==
    /\ last.op = "remove" /\ last.ret # None
    /\ Len(last.preQueue) >= 2
    /\ len(queue) = Len(last.preQueue) - 1
    /\ pos(queue, queue[1].key) = Some(0)

====
